---------------------------- MODULE Spec2Model ----------------------------
(***************************************************************************)
(* TTRPG Tools: Publish -- the publish-artifact pipeline.                  *)
(*                                                                         *)
(* Strings are sequences of one-character strings (UTF-16 code units).     *)
(* The module holds several specifications over one set of variables:      *)
(*   SpecHash    the stable id hasher applied to pairs of raw keys         *)
(*   SpecUpsert  the runtime-block upsert applied to publish.js            *)
(*   Spec        the data-note generation passes on a vault that changes   *)
(*   SpecPrepare the eight commands of the plugin run one after another    *)
(*   SpecEntries the timeline pass on vaults with one or two dated notes   *)
(*   SpecLinks   the map commands on vaults whose markers link to notes    *)
(*   SpecOverlap two manifest commands in flight at the same time          *)
(* Each specification leaves the other groups of variables idle.           *)
(***************************************************************************)
EXTENDS Integers, Sequences, FiniteSets, TLC

VARIABLES
  hA, hB,          \* SpecHash: two raw keys
  hIdA, hIdB,      \* SpecHash: hashPathToId of each (NoVal before the call)
  hNoteA, hNoteB,  \* SpecHash: markerNotePathForMarkersPath of each
  uFile,           \* SpecUpsert: content of publish.js (NoFile when absent)
  uBlock,          \* SpecUpsert: the generated runtime block
  uHist,           \* SpecUpsert: publish.js before the 1st install, after it, ...
  uWrites,         \* SpecUpsert: per install, the number of adapter.write calls
  docs,            \* Spec: the source notes, in getMarkdownFiles() order
  vault,           \* Spec: [files: path -> content, folders, js, css, zm]
  clock,           \* Spec: the time of the latest command (Date.now())
  steps,           \* Spec: commands run so far
  faults,          \* Spec: commands during which the store refused an operation
  last,            \* Spec: what the latest command did
  passes           \* SpecOverlap: the commands in flight and where each is suspended

hashVars   == <<hA, hB, hIdA, hIdB, hNoteA, hNoteB>>
upsertVars == <<uFile, uBlock, uHist, uWrites>>
pipeVars   == <<docs, vault, clock, steps, faults, last>>
overlapVars == <<passes>>
vars       == <<hashVars, upsertVars, pipeVars, overlapVars>>

NoVal == <<"NoVal">>

\* A root file as the adapter sees it
NoFile     == [exists |-> FALSE, text |-> <<>>]
File(text) == [exists |-> TRUE, text |-> text]

---------------------------------------------------------------------------
(* Bounds *)

MaxKeyLen == 2     \* characters of a raw key's body
MaxSegs   == 4     \* segments of the text of publish.js
MaxInstalls == 2   \* consecutive installPublishRuntime calls
MaxSteps  == 2     \* commands in one behaviour of Spec
MaxEdits  == 1     \* edits the user makes in one behaviour of Spec
MaxFaults == 1     \* commands of one behaviour during which the store fails

---------------------------------------------------------------------------
(* JavaScript string primitives *)

IsWs(c) == c \in {" ", "\n", "\t"}

RECURSIVE trimStart(_)
trimStart(s) == IF s # <<>> /\ IsWs(Head(s)) THEN trimStart(Tail(s)) ELSE s

RECURSIVE trimEnd(_)
trimEnd(s) == IF s # <<>> /\ IsWs(s[Len(s)]) THEN trimEnd(SubSeq(s, 1, Len(s) - 1)) ELSE s

trim(s) == trimEnd(trimStart(s))

startsWith(s, p) == Len(s) >= Len(p) /\ SubSeq(s, 1, Len(p)) = p

endsWith(s, p) == Len(s) >= Len(p) /\ SubSeq(s, Len(s) - Len(p) + 1, Len(s)) = p

\* s.slice(a, b) with 0 <= a, 0 <= b (0-based, b exclusive)
slice(s, a, b) ==
  LET e == IF b > Len(s) THEN Len(s) ELSE b
  IN  IF e <= a THEN <<>> ELSE SubSeq(s, a + 1, e)

\* s.slice(a)
sliceFrom(s, a) == slice(s, a, Len(s))

\* s.indexOf(p): 0-based index of the first occurrence, -1 when there is none
indexOf(s, p) ==
  LET hits == {i \in 0..(Len(s) - Len(p)) : SubSeq(s, i + 1, i + Len(p)) = p}
  IN  IF hits = {} THEN -1 ELSE CHOOSE i \in hits : \A j \in hits : i <= j

RECURSIVE Concat(_)
Concat(ss) == IF ss = <<>> THEN <<>> ELSE Head(ss) \o Concat(Tail(ss))

\* All sequences over S of length 0..n
SeqsUpTo(S, n) == UNION {[1..k -> S] : k \in 0..n}

---------------------------------------------------------------------------
(* hash.ts : normalizeForHash, fnv1a32, hashPathToId, hashKeyToId *)

\* s.replace(/\\/g, "/")
backslashesToSlashes(s) == [i \in 1..Len(s) |-> IF s[i] = "\\" THEN "/" ELSE s[i]]

RECURSIVE stripLeadingSlashes(_)
stripLeadingSlashes(s) ==
  IF s # <<>> /\ Head(s) = "/" THEN stripLeadingSlashes(Tail(s)) ELSE s

\* s.replace(/^\.\/+/, "")
stripDotSlash(s) ==
  IF Len(s) >= 2 /\ s[1] = "." /\ s[2] = "/" THEN stripLeadingSlashes(Tail(s)) ELSE s

\* s.replace(/\/{2,}/g, "/")
RECURSIVE collapseSlashes(_)
collapseSlashes(s) ==
  IF Len(s) < 2 THEN s
  ELSE IF s[1] = "/" /\ s[2] = "/" THEN collapseSlashes(Tail(s))
  ELSE <<Head(s)>> \o collapseSlashes(Tail(s))

stripWiki(s) ==
  IF startsWith(s, <<"[", "[">>) /\ endsWith(s, <<"]", "]">>)
  THEN trim(slice(s, 2, Len(s) - 2))
  ELSE s

normalizeForHash(input) ==
  stripLeadingSlashes(collapseSlashes(stripDotSlash(backslashesToSlashes(stripWiki(trim(input))))))

\* Printable ASCII, in code order from 32 (the double quote and the backtick are spelled out)
Ascii ==
  << " ", "!", "QUOTE", "#", "$", "%", "&", "'", "(", ")", "*", "+", ",", "-", ".", "/",
     "0", "1", "2", "3", "4", "5", "6", "7", "8", "9", ":", ";", "<", "=", ">", "?",
     "@", "A", "B", "C", "D", "E", "F", "G", "H", "I", "J", "K", "L", "M", "N", "O",
     "P", "Q", "R", "S", "T", "U", "V", "W", "X", "Y", "Z", "[", "\\", "]", "^", "_",
     "BACKTICK", "a", "b", "c", "d", "e", "f", "g", "h", "i", "j", "k", "l", "m", "n", "o",
     "p", "q", "r", "s", "t", "u", "v", "w", "x", "y", "z", "{", "|", "}", "~" >>

CharSet == {Ascii[i] : i \in 1..Len(Ascii)} \cup {"\n", "\t"}

\* str.charCodeAt(i)
charCode ==
  [c \in CharSet |->
     IF c = "\n" THEN 10
     ELSE IF c = "\t" THEN 9
     ELSE 31 + (CHOOSE i \in 1..Len(Ascii) : Ascii[i] = c)]

\* c.toLowerCase() on ASCII
lowerChar ==
  [c \in CharSet |->
     LET n == charCode[c] IN IF n >= 65 /\ n <= 90 THEN Ascii[n + 1] ELSE c]

toLowerCase(s) == [i \in 1..Len(s) |-> lowerChar[s[i]]]

\* a ^ b on non-negative integers
RECURSIVE bitXor(_, _)
bitXor(a, b) ==
  IF a = 0 THEN b
  ELSE IF b = 0 THEN a
  ELSE (((a % 2) + (b % 2)) % 2) + 2 * bitXor(a \div 2, b \div 2)

\* A 32-bit word is kept as two 16-bit halves <<hi, lo>>.
FnvOffset == <<33052, 40389>>     \* 0x811c9dc5

\* Math.imul(h, 0x01000193): 0x01000193 = 2^24 + 403, product kept mod 2^32
imulPrime(h) ==
  LET lo403 == h[2] * 403
      hi    == (h[1] * 403 + (lo403 \div 65536) + (h[2] % 256) * 256) % 65536
  IN  <<hi, lo403 % 65536>>

RECURSIVE fnvFold(_, _)
fnvFold(h, str) ==
  IF str = <<>> THEN h
  ELSE fnvFold(imulPrime(<<h[1], bitXor(h[2], charCode[Head(str)])>>), Tail(str))

\* fnv1a32 multiplying before the XOR (FNV-1 instead of FNV-1a)
RECURSIVE fnvFold_multiplyFirst(_, _)
fnvFold_multiplyFirst(h, str) ==
  IF str = <<>> THEN h
  ELSE fnvFold_multiplyFirst(
         <<imulPrime(h)[1], bitXor(imulPrime(h)[2], charCode[Head(str)])>>, Tail(str))

fnv1a32_multiplyFirst(str) == fnvFold_multiplyFirst(FnvOffset, str)

\* fnv1a32(str), the result of h >>> 0 as the halves of an unsigned 32-bit word
fnv1a32(str) == fnvFold(FnvOffset, str)

Digits36 ==
  << "0", "1", "2", "3", "4", "5", "6", "7", "8", "9", "a", "b", "c", "d", "e", "f",
     "g", "h", "i", "j", "k", "l", "m", "n", "o", "p", "q", "r", "s", "t", "u", "v",
     "w", "x", "y", "z" >>

\* n.toString(36) of an unsigned 32-bit word
RECURSIVE toString36(_)
toString36(h) ==
  LET qhi == h[1] \div 36
      mid == (h[1] % 36) * 65536 + h[2]
      qlo == mid \div 36
      d   == Digits36[(mid % 36) + 1]
  IN  IF qhi = 0 /\ qlo = 0 THEN <<d>> ELSE toString36(<<qhi, qlo>>) \o <<d>>

hashPathToId_raw(path) == toString36(fnv1a32(path))

hashPathToId(path) == toString36(fnv1a32(normalizeForHash(path)))

hashKeyToId(key) == toString36(fnv1a32(toLowerCase(trim(key))))

---------------------------------------------------------------------------
(* Settings (DEFAULT_SETTINGS) and artifact paths *)

PublishRoot  == <<"Z", "o", "o", "m", "M", "a", "p", "/", "p", "u", "b", "l", "i", "s", "h">>
TimelineRoot == <<"T", "i", "m", "e", "l", "i", "n", "e", "/", "p", "u", "b", "l", "i", "s", "h">>

MarkersFolder   == PublishRoot \o <<"/", "m", "a", "r", "k", "e", "r", "s">>
TimelinesFolder == TimelineRoot \o <<"/", "t", "i", "m", "e", "l", "i", "n", "e", "s">>

DotMd == <<".", "m", "d">>

markerNotePathForMarkersPath(markersPath) ==
  MarkersFolder \o <<"/", "m", "-">> \o hashPathToId(markersPath) \o DotMd

timelineDataNotePathForTimelineName(name) ==
  TimelinesFolder \o <<"/", "t", "-">> \o hashKeyToId(name) \o DotMd

---------------------------------------------------------------------------
(* upsertBlock / upsertRootFileBlock *)

\* The sentinel markers and the generated blocks come from publishTemplates.
ZM_BEGIN_JS  == <<"@", "B">>
ZM_END_JS    == <<"@", "E">>
ZM_BEGIN_CSS == <<"@", "B">>
ZM_END_CSS   == <<"@", "E">>

\* buildPublishJsBlock / buildPublishCssBlock: begin marker, generated code, end marker
buildPublishJsBlock(trailingNl) ==
  ZM_BEGIN_JS \o <<"\n", "j", "\n">> \o ZM_END_JS \o (IF trailingNl THEN <<"\n">> ELSE <<>>)

buildPublishCssBlock == ZM_BEGIN_CSS \o <<"\n", "c", "\n">> \o ZM_END_CSS \o <<"\n">>

upsertBlock_keepEnd(src, begin, end, block) ==
  LET a == indexOf(src, begin)
      b == indexOf(src, end)
  IN  IF a >= 0 /\ b > a
      THEN LET before == slice(src, 0, a)
               after  == sliceFrom(src, b)
               needsNlBefore == Len(before) > 0 /\ ~endsWith(before, <<"\n">>)
               needsNlAfter  == Len(after) > 0 /\ ~startsWith(after, <<"\n">>)
           IN  trimEnd(before
                       \o (IF needsNlBefore THEN <<"\n">> ELSE <<>>)
                       \o trimEnd(block)
                       \o (IF needsNlAfter THEN <<"\n">> ELSE <<>>)
                       \o after) \o <<"\n">>
      ELSE LET trimmed == trimEnd(src)
           IN  IF trimmed = <<>> THEN trimEnd(block) \o <<"\n">>
               ELSE trimmed \o <<"\n", "\n">> \o trimEnd(block) \o <<"\n">>

upsertBlock(src, begin, end, block) ==
  LET a == indexOf(src, begin)
      b == indexOf(src, end)
  IN  IF a >= 0 /\ b > a
      THEN LET before == slice(src, 0, a)
               after  == sliceFrom(src, b + Len(end))
               needsNlBefore == Len(before) > 0 /\ ~endsWith(before, <<"\n">>)
               needsNlAfter  == Len(after) > 0 /\ ~startsWith(after, <<"\n">>)
           IN  trimEnd(before
                       \o (IF needsNlBefore THEN <<"\n">> ELSE <<>>)
                       \o trimEnd(block)
                       \o (IF needsNlAfter THEN <<"\n">> ELSE <<>>)
                       \o after) \o <<"\n">>
      ELSE LET trimmed == trimEnd(src)
           IN  IF trimmed = <<>> THEN trimEnd(block) \o <<"\n">>
               ELSE trimmed \o <<"\n", "\n">> \o trimEnd(block) \o <<"\n">>

\* upsertRootFileBlock on one root file: <<content after, adapter.write called>>
upsertRootFileBlock(file, begin, end, block) ==
  LET exists == file.exists
      text   == IF exists THEN file.text ELSE <<>>
      next   == upsertBlock(text, begin, end, block)
  IN  IF ~exists THEN <<File(next), TRUE>>
      ELSE IF text # next THEN <<File(next), TRUE>>
      ELSE <<file, FALSE>>

\* installPublishRuntime on the two root files
installPublishRuntime(files, jsBlock) ==
  LET js  == upsertRootFileBlock(files.js, ZM_BEGIN_JS, ZM_END_JS, jsBlock)
      css == upsertRootFileBlock(files.css, ZM_BEGIN_CSS, ZM_END_CSS, buildPublishCssBlock)
  IN  [files  |-> [js |-> js[1], css |-> css[1]],
       writes |-> (IF js[2] THEN 1 ELSE 0) + (IF css[2] THEN 1 ELSE 0)]

---------------------------------------------------------------------------
(* The vault: files, folders and the store operations *)

RECURSIVE stripTrailingSlashes(_)
stripTrailingSlashes(s) ==
  IF s # <<>> /\ s[Len(s)] = "/" THEN stripTrailingSlashes(SubSeq(s, 1, Len(s) - 1)) ELSE s

\* obsidian.normalizePath
normalizePath(p) ==
  LET q == stripTrailingSlashes(stripLeadingSlashes(collapseSlashes(backslashesToSlashes(p))))
  IN  IF q = <<>> THEN <<"/">> ELSE q

lastSlash(p) ==
  LET hits == {i \in 1..Len(p) : p[i] = "/"}
  IN  IF hits = {} THEN 0 ELSE CHOOSE i \in hits : \A j \in hits : j <= i

\* TFile.name
fileName(p) == SubSeq(p, lastSlash(p) + 1, Len(p))

\* normalizePath(path).split("/").slice(0, -1).join("/")
dirName(p) == SubSeq(p, 1, lastSlash(p) - 1)

isMarkdown(p) == endsWith(p, DotMd)

LibJsonPath == <<"Z", "o", "o", "m", "M", "a", "p", "/", "l", "i", "b", "r", "a", "r", "y", ".", "j", "s", "o", "n">>

libraryNotePath == normalizePath(PublishRoot \o <<"/", "l", "i", "b", "r", "a", "r", "y">> \o DotMd)

\* fmNumber gives undefined
NoMtime == -1

\* A JSON source file: stat.mtime, whether JSON.parse accepts it, the parsed value
JsonFile(mtime, ok, val) == [kind |-> "json", mtime |-> mtime, ok |-> ok, val |-> val]

\* A markdown note: frontmatter publish flag, ttrpgtoolsData, the other
\* frontmatter keys, generatedAt and the fenced payload
Note(data, meta, at, obj) ==
  [kind |-> "md", publish |-> TRUE, data |-> data, meta |-> meta, at |-> at, obj |-> obj]

\* A note the user wrote by hand
HandNote == [kind |-> "md", publish |-> FALSE, data |-> "hand", meta |-> [none |-> TRUE],
             at |-> 0, obj |-> "text"]

\* cur === content
SameText(c1, c2) == c1.kind = c2.kind /\ c1.data = c2.data /\ c1 = c2

\* fmNumber(readFrontmatter(cur), "zoommapSourceMtime")
fmSourceMtime(content) ==
  IF content.kind = "md" /\ "zoommapSourceMtime" \in DOMAIN content.meta
  THEN content.meta.zoommapSourceMtime
  ELSE NoMtime

wrapJsonAsPublishNote(kind, obj, meta, now) == Note(kind, meta, now, obj)

NoFault == [op |-> "none", path |-> <<>>]

\* The store refuses operation op on path during this command
Fails(cx, op, path) == cx.fault.op = op /\ cx.fault.path = path

\* An exception is raised; hit records that the store refused something
Throw(cx) == [cx EXCEPT !.thrown = TRUE, !.hit = TRUE]

Notice(cx, what, path) == [cx EXCEPT !.notices = Append(@, <<what, path>>)]

\* The store operations; once an exception is in flight (cx.thrown) the
\* statements that follow it are not executed
vaultRead(cx, path) ==
  IF cx.thrown THEN cx
  ELSE IF Fails(cx, "read", path) THEN Throw(cx) ELSE cx

vaultModify(cx, path, content) ==
  IF cx.thrown THEN cx
  ELSE IF Fails(cx, "modify", path) THEN Throw(cx)
  ELSE [cx EXCEPT !.files = [q \in DOMAIN @ |-> IF q = path THEN content ELSE @[q]],
                  !.log = Append(@, <<"modify", path>>)]

vaultCreate(cx, path, content) ==
  IF cx.thrown THEN cx
  ELSE IF Fails(cx, "create", path) \/ path \in DOMAIN cx.files THEN Throw(cx)
  ELSE [cx EXCEPT !.files = [q \in DOMAIN @ \cup {path} |-> IF q = path THEN content ELSE @[q]],
                  !.log = Append(@, <<"create", path>>)]

trashFile(cx, path) ==
  IF cx.thrown THEN cx
  ELSE IF Fails(cx, "trash", path) THEN Throw(cx)
  ELSE [cx EXCEPT !.files = [q \in DOMAIN @ \ {path} |-> @[q]],
                  !.log = Append(@, <<"trash", path>>)]

\* createFolder whose failure is swallowed: the pass goes on without the folder
createFolder_swallowed(cx, dir) ==
  IF cx.thrown THEN cx
  ELSE IF Fails(cx, "createFolder", dir) THEN [cx EXCEPT !.hit = TRUE]
  ELSE [cx EXCEPT !.folders = @ \cup {dir}, !.log = Append(@, <<"createFolder", dir>>)]

createFolder(cx, dir) ==
  IF cx.thrown THEN cx
  ELSE IF Fails(cx, "createFolder", dir) THEN Throw(cx)
  ELSE [cx EXCEPT !.folders = @ \cup {dir}, !.log = Append(@, <<"createFolder", dir>>)]

\* A catch block: the exception is swallowed and reported
Caught(cx, what, path) ==
  IF cx.thrown THEN Notice([cx EXCEPT !.thrown = FALSE], what, path) ELSE cx

\* A statement that only runs when no exception is in flight
NoticeIfOk(cx, what, path) == IF cx.thrown THEN cx ELSE Notice(cx, what, path)

ensureFolderForDir(cx, dir) ==
  IF cx.thrown THEN cx
  ELSE IF dir # <<>> /\ dir \notin cx.folders /\ dir \notin DOMAIN cx.files
       THEN createFolder(cx, dir)
       ELSE cx

ensureFolderFor(cx, path) == ensureFolderForDir(cx, dirName(normalizePath(path)))

\* writeOverExisting without the comparison of the text read
writeOverExisting_always(cx, path, content) ==
  IF cx.thrown THEN cx ELSE vaultModify(cx, path, content)

\* writeOrUpdateMarkdown once the existing file has been read
writeOverExisting(cx, path, content) ==
  IF cx.thrown THEN cx
  ELSE IF SameText(cx.files[path], content) THEN cx
  ELSE vaultModify(cx, path, content)

writeOrUpdateMarkdown(cx, path, content) ==
  IF cx.thrown THEN cx
  ELSE IF path \in DOMAIN cx.files
       THEN writeOverExisting(vaultRead(cx, path), path, content)
       ELSE vaultCreate(cx, path, content)

\* The pass-local state of a command: the store, what it logged, its counters
NewContext(v, ds, fault) ==
  [files |-> v.files, notePaths |-> {ds[i].path : i \in 1..Len(ds)}, folders |-> v.folders, fault |-> fault, thrown |-> FALSE, hit |-> FALSE,
   log |-> <<>>, notices |-> <<>>, maps |-> <<>>, scanned |-> <<>>, keep |-> {},
   tkeep |-> {}, updated |-> 0,
   skipped |-> 0, items |-> <<>>, titems |-> <<>>, js |-> v.js, css |-> v.css, zm |-> v.zm,
   assets |-> <<>>, stages |-> <<>>, deep |-> FALSE]

\* The command runs with includePinLinkedNotesInAssets set to deep
WithSetting(cx, deep) == [cx EXCEPT !.deep = deep]

---------------------------------------------------------------------------
(* scanZoommaps *)

\* parseYamlPathList: entries are strings or objects with a path
RECURSIVE parseYamlPathList(_)
parseYamlPathList(v) ==
  IF v = <<>> THEN <<>>
  ELSE (IF Head(v).form \in {"string", "object"} /\ trim(Head(v).path) # <<>>
        THEN <<trim(Head(v).path)>> ELSE <<>>)
       \o parseYamlPathList(Tail(v))

scalarString(y, key) == trim(y[key])

firstBaseFromYaml(y) ==
  IF parseYamlPathList(y.imageBases) = <<>> THEN <<>>
  ELSE Head(parseYamlPathList(y.imageBases))

MarkersSuffix == <<".", "m", "a", "r", "k", "e", "r", "s", ".", "j", "s", "o", "n">>

\* `${image}.markers.json` unless the block names its marker document
markersOf(y, image) ==
  IF scalarString(y, "markers") # <<>> THEN scalarString(y, "markers")
  ELSE image \o MarkersSuffix

frameOf(y) ==
  IF scalarString(y, "viewportFrame") # <<>> THEN <<scalarString(y, "viewportFrame")>>
  ELSE <<>>

blockToMapWithImage(notePath, y, image) ==
  IF ~y.parses \/ image = <<>> THEN <<>>
  ELSE << [notePath |-> notePath,
           markersPath |-> normalizePath(markersOf(y, image)),
           assetPaths |-> <<image>> \o parseYamlPathList(y.imageBases)
                          \o parseYamlPathList(y.imageOverlays) \o frameOf(y)] >>

\* One fenced zoommap block of a note, after parseYaml
blockToMap(notePath, y) ==
  blockToMapWithImage(notePath, y,
    IF scalarString(y, "image") # <<>> THEN scalarString(y, "image")
    ELSE firstBaseFromYaml(y))

RECURSIVE blocksToMaps(_, _)
blocksToMaps(notePath, blocks) ==
  IF blocks = <<>> THEN <<>>
  ELSE blockToMap(notePath, Head(blocks)) \o blocksToMaps(notePath, Tail(blocks))

RECURSIVE scanDocs(_, _)
scanDocs(ds, scanMode) ==
  IF ds = <<>> THEN <<>>
  ELSE (IF scanMode = "publishTrueOnly" /\ ~Head(ds).publish THEN <<>>
        ELSE blocksToMaps(Head(ds).path, Head(ds).blocks))
       \o scanDocs(Tail(ds), scanMode)

ScanMode == "publishTrueOnly"

\* The notes scanZoommaps reads: every markdown file that passes the scan mode
scannedPaths(cx, ds, scanMode) ==
  {ds[i].path : i \in {j \in 1..Len(ds) : scanMode # "publishTrueOnly" \/ ds[j].publish}}
  \cup {p \in DOMAIN cx.files : isMarkdown(p)
                                /\ (scanMode # "publishTrueOnly" \/ cx.files[p].publish)}

\* scanZoommaps: the context after its reads, holding the map blocks found
scanZoommaps(cx, ds) ==
  IF cx.thrown THEN cx
  ELSE IF \E p \in scannedPaths(cx, ds, ScanMode) : Fails(cx, "read", p) THEN Throw(cx)
  ELSE [cx EXCEPT !.maps = scanDocs(ds, ScanMode)]

---------------------------------------------------------------------------
(* generatePublishDataNotes, exportLibraryNote, cleanupMarkerNotes *)

\* The library document the zoom-map plugin saves: no icons, no collections
SavedLibrary == [icons |-> <<>>, baseCollections |-> <<>>]

\* zm.saveLibraryToPath(LIB_JSON) when the library document is not in the vault;
\* cx.zm is the zoom-map plugin: "absent", or loaded with a saveLibraryToPath
\* that "saves" or "fails"
materializeLibrary(cx, now) ==
  IF cx.thrown \/ LibJsonPath \in DOMAIN cx.files \/ cx.zm = "absent" THEN cx
  ELSE IF cx.zm = "fails" THEN [cx EXCEPT !.thrown = TRUE]
  ELSE [cx EXCEPT !.files = [q \in DOMAIN @ \cup {LibJsonPath} |->
                               IF q = LibJsonPath THEN JsonFile(now, TRUE, SavedLibrary)
                               ELSE @[q]]]

\* The fingerprint test shared by exportLibraryNote and the marker loop:
\* prevMtime !== undefined && sourceMtime !== undefined && prevMtime === sourceMtime
SameFingerprint(cx, notePath, sourceMtime) ==
  /\ notePath \in DOMAIN cx.files
  /\ fmSourceMtime(cx.files[notePath]) # NoMtime
  /\ fmSourceMtime(cx.files[notePath]) = sourceMtime

\* vault.read(existing) when a file exists at the artifact path
readExisting(cx, notePath) ==
  IF notePath \in DOMAIN cx.files THEN vaultRead(cx, notePath) ELSE cx

\* exportLibraryNote from the fingerprint test on (lines 462-479)
exportLibraryWrite(cx, libFile, now) ==
  IF cx.thrown THEN cx
  ELSE IF SameFingerprint(cx, libraryNotePath, libFile.mtime) THEN cx
  ELSE NoticeIfOk(
         writeOrUpdateMarkdown(cx, libraryNotePath,
           wrapJsonAsPublishNote("library", libFile.val,
             [sourceFile |-> LibJsonPath, zoommapSourceMtime |-> libFile.mtime], now)),
         "Generated", libraryNotePath)

\* exportLibraryParsed writing an empty library when the document does not parse
exportLibraryParsed_writesEmpty(cx, libFile, now) ==
  IF cx.thrown THEN cx
  ELSE IF ~(libFile.kind = "json" /\ libFile.ok)
       THEN exportLibraryWrite(cx, [libFile EXCEPT !.val = SavedLibrary], now)
       ELSE exportLibraryWrite(readExisting(cx, libraryNotePath), libFile, now)

\* exportLibraryNote once the library document has been read (lines 453-479)
exportLibraryParsed(cx, libFile, now) ==
  IF cx.thrown THEN cx
  ELSE IF ~(libFile.kind = "json" /\ libFile.ok)
       THEN Notice(cx, "library.json is invalid JSON", LibJsonPath)
       ELSE exportLibraryWrite(readExisting(cx, libraryNotePath), libFile, now)

\* exportLibraryNote after the attempt to materialize the document (lines 444-479)
exportLibraryFrom(cx, now) ==
  IF cx.thrown THEN cx
  ELSE IF LibJsonPath \notin DOMAIN cx.files
       THEN Notice(cx, "library JSON missing", LibJsonPath)
       ELSE exportLibraryParsed(vaultRead(cx, LibJsonPath), cx.files[LibJsonPath], now)

exportLibraryNote(cx, now) == exportLibraryFrom(materializeLibrary(cx, now), now)

\* What the loop recorded about one map block
Item(m, notePath, sourceMtime, counted, before, after) ==
  [markersPath |-> m.markersPath, notePath |-> notePath,
   hadNote |-> notePath \in DOMAIN before.files,
   prevMtime |-> IF notePath \in DOMAIN before.files
                 THEN fmSourceMtime(before.files[notePath]) ELSE NoMtime,
   sourceMtime |-> sourceMtime, counted |-> counted,
   wrote |-> Len(after.log) > Len(before.log),
   stored |-> IF notePath \in DOMAIN after.files THEN fmSourceMtime(after.files[notePath])
              ELSE NoMtime]

\* updatedMarkerNotes++ after writeOrUpdateMarkdown returned (line 423)
markerItemUpdated(cx, m, src, notePath, before) ==
  IF cx.thrown THEN cx
  ELSE [cx EXCEPT !.updated = @ + 1,
                  !.items = Append(@, Item(m, notePath, src.mtime, "updated", before, cx))]

\* The fingerprint test and the write (lines 406-423)
markerItemWrite(cx, m, src, notePath, now, before) ==
  IF cx.thrown THEN cx
  ELSE IF SameFingerprint(cx, notePath, src.mtime)
       THEN [cx EXCEPT !.skipped = @ + 1,
                       !.items = Append(@, Item(m, notePath, src.mtime, "unchanged", before, cx))]
       ELSE markerItemUpdated(
              writeOrUpdateMarkdown(cx, notePath,
                wrapJsonAsPublishNote("markers", src.val,
                  [zoommapMarkersPath |-> normalizeForHash(m.markersPath),
                   sourceFile |-> normalizePath(m.markersPath),
                   zoommapSourceMtime |-> src.mtime], now)),
              m, src, notePath, before)

\* markerNotePaths.add(notePath) and the read of the existing artifact (398-404)
markerItemKeep(cx, m, src, notePath, now) ==
  markerItemWrite(readExisting([cx EXCEPT !.keep = @ \cup {notePath}], notePath),
                  m, src, notePath, now, cx)

\* markerItemParsed without the try/catch around JSON.parse
markerItemParsed_noCatch(cx, m, src, now) ==
  IF cx.thrown THEN cx
  ELSE IF ~(src.kind = "json" /\ src.ok) THEN [cx EXCEPT !.thrown = TRUE]
  ELSE markerItemKeep(cx, m, src, markerNotePathForMarkersPath(m.markersPath), now)

\* The loop body once the marker document has been read (lines 389-423)
markerItemParsed(cx, m, src, now) ==
  IF cx.thrown THEN cx
  ELSE IF ~(src.kind = "json" /\ src.ok) THEN Notice(cx, "invalid JSON", m.markersPath)
  ELSE markerItemKeep(cx, m, src, markerNotePathForMarkersPath(m.markersPath), now)

\* The body of the loop over the scanned map blocks (lines 379-424)
markerItem(cx, m, now) ==
  IF normalizePath(m.markersPath) \notin DOMAIN cx.files
  THEN Notice(cx, "missing marker file", m.markersPath)
  ELSE markerItemParsed(vaultRead(cx, normalizePath(m.markersPath)), m,
                        cx.files[normalizePath(m.markersPath)], now)

RECURSIVE markerLoop(_, _, _)
markerLoop(cx, maps, now) ==
  IF maps = <<>> \/ cx.thrown THEN cx
  ELSE markerLoop(markerItem(cx, Head(maps), now), Tail(maps), now)

\* cleanupItem with the prefix tested on the path instead of the file name
cleanupItem_pathPrefix(cx, f, prefix, keep) ==
  IF ~startsWith(f, prefix) THEN cx
  ELSE IF f \in keep THEN cx
  ELSE Caught(trashFile(cx, f), "failed to delete", f)

\* The body of the loop of cleanupMarkerNotes / cleanupTimelineNotes
cleanupItem(cx, f, prefix, keep) ==
  IF ~startsWith(fileName(f), prefix) THEN cx
  ELSE IF f \in keep THEN cx
  ELSE Caught(trashFile(cx, f), "failed to delete", f)

RECURSIVE cleanupLoop(_, _, _, _)
cleanupLoop(cx, todo, prefix, keep) ==
  IF todo = {} THEN cx
  ELSE cleanupLoop(cleanupItem(cx, CHOOSE p \in todo : TRUE, prefix, keep),
                   todo \ {CHOOSE p \in todo : TRUE}, prefix, keep)

\* getMarkdownFiles().filter((f) => f.path.startsWith(folder + "/"))
markdownFilesUnder(cx, folder) ==
  {p \in DOMAIN cx.files : isMarkdown(p) /\ startsWith(p, normalizePath(folder) \o <<"/">>)}

cleanupMarkerNotes(cx, keep) ==
  IF cx.thrown THEN cx
  ELSE cleanupLoop(cx, markdownFilesUnder(cx, MarkersFolder), <<"m", "-">>, keep)

\* The pass from the scan on (lines 376-432)
markerPass(cx, now) ==
  IF cx.thrown THEN cx
  ELSE markerLoop(cx, cx.maps, now)

cleanupAfterMarkers(cx) == cleanupMarkerNotes(cx, cx.keep)

\* exportLibraryNote awaited without the try/catch around it
tryExportLibraryNote_noCatch(cx, now) == exportLibraryNote(cx, now)

\* try { await this.exportLibraryNote() } catch { warn, Notice } (lines 368-373)
tryExportLibraryNote(cx, now) ==
  IF cx.thrown THEN cx
  ELSE Caught(exportLibraryNote(cx, now), "library export failed", LibJsonPath)

generatePublishDataNotes(cx, ds, now) ==
  NoticeIfOk(
    cleanupAfterMarkers(
      markerPass(
        scanZoommaps(
          tryExportLibraryNote(
            ensureFolderFor(ensureFolderFor(cx, libraryNotePath),
                            normalizePath(MarkersFolder \o <<"/", "x">> \o DotMd)),
            now),
          ds),
        now)),
    "Generated publish marker notes", <<>>)

---------------------------------------------------------------------------
(* Timeline entries: parsing, month tables, date text *)

Ymd(y, m, d) == [has |-> TRUE, y |-> y, m |-> m, d |-> d]

\* parseFcDate gives null / an optional date is undefined
NoYmd == [has |-> FALSE, y |-> 0, m |-> 0, d |-> 0]

IsDigit(c) == c \in {"0", "1", "2", "3", "4", "5", "6", "7", "8", "9"}

digitVal(c) == CHOOSE n \in 0..9 : Digits36[n + 1] = c

\* The longest run of digits at the front of s, at most max long (\d{1,max})
RECURSIVE takeDigits(_, _)
takeDigits(s, max) ==
  IF max = 0 \/ s = <<>> \/ ~IsDigit(Head(s)) THEN <<>>
  ELSE <<Head(s)>> \o takeDigits(Tail(s), max - 1)

\* Number(m[i]) for a string of digits
RECURSIVE digitsToNumber(_)
digitsToNumber(ds) ==
  IF ds = <<>> THEN 0
  ELSE digitsToNumber(SubSeq(ds, 1, Len(ds) - 1)) * 10 + digitVal(ds[Len(ds)])

\* String(n) for an integer
RECURSIVE toDecimal(_)
toDecimal(n) ==
  IF n < 0 THEN <<"-">> \o toDecimal(-n)
  ELSE IF n < 10 THEN <<Digits36[n + 1]>>
  ELSE toDecimal(n \div 10) \o <<Digits36[(n % 10) + 1]>>

\* The digits after a "-" at the front of r, at most two
dashDigits(r) == IF r # <<>> /\ Head(r) = "-" THEN takeDigits(Tail(r), 2) ELSE <<>>

parseYmd(ys, ms, ds) ==
  IF ys = <<>> \/ ms = <<>> \/ ds = <<>> THEN NoYmd
  ELSE Ymd(digitsToNumber(ys), digitsToNumber(ms), digitsToNumber(ds))

\* m = t.match(/^(\d{1,6})-(\d{1,2})-(\d{1,2})/) once the year is matched
matchAfterMonth(ys, ms, r2) == parseYmd(ys, ms, dashDigits(r2))

matchAfterYear(ys, r1) ==
  matchAfterMonth(ys, dashDigits(r1), sliceFrom(r1, 1 + Len(dashDigits(r1))))

matchFcDate(t) == matchAfterYear(takeDigits(t, 6), sliceFrom(t, Len(takeDigits(t, 6))))

\* parseFcDate; val is absent, a string, or a {year, month, day} record whose
\* members are finite numbers or not
parseFcDate(val) ==
  IF val.form = "string"
  THEN (IF val.text = <<>> THEN NoYmd ELSE matchFcDate(trim(val.text)))
  ELSE IF val.form = "record"
  THEN (IF ~val.finite THEN NoYmd ELSE Ymd(val.y, val.m, val.d))
  ELSE NoYmd

ymdSortKey(v) == v.y * 10000 + v.m * 100 + v.d

\* s.split(/[,;\n]+/g): the pieces between runs of separators
RECURSIVE splitRuns(_, _, _)
splitRuns(s, cur, inSep) ==
  IF s = <<>> THEN <<cur>>
  ELSE IF Head(s) \in {",", ";", "\n"}
       THEN IF inSep THEN splitRuns(Tail(s), cur, TRUE)
            ELSE <<cur>> \o splitRuns(Tail(s), <<>>, TRUE)
       ELSE splitRuns(Tail(s), Append(cur, Head(s)), FALSE)

RECURSIVE trimAndDropEmpty(_)
trimAndDropEmpty(ss) ==
  IF ss = <<>> THEN <<>>
  ELSE (IF trim(Head(ss)) = <<>> THEN <<>> ELSE <<trim(Head(ss))>>)
       \o trimAndDropEmpty(Tail(ss))

\* s.replace(/[\]["]/g, "")
RECURSIVE dropBracketsAndQuotes(_)
dropBracketsAndQuotes(s) ==
  IF s = <<>> THEN <<>>
  ELSE (IF Head(s) \in {"[", "]", "QUOTE"} THEN <<>> ELSE <<Head(s)>>)
       \o dropBracketsAndQuotes(Tail(s))

\* splitTimelineNames; raw is absent, an array of strings, or one string
splitTimelineNames(raw) ==
  IF raw.form = "array" THEN trimAndDropEmpty(raw.items)
  ELSE IF raw.form = "string"
  THEN trimAndDropEmpty(splitRuns(dropBracketsAndQuotes(raw.text), <<>>, FALSE))
  ELSE <<>>

defaultMonths ==
  <<"January", "February", "March", "April", "May", "June", "July", "August",
    "September", "October", "November", "December">>

\* parseTimelineMonthOverrides of the settings in force: timeline name -> months
MonthOverrides == [n \in {<<"b">>} |-> <<"Hammer", "Alturiak">>]

\* getTimelineMonths, with no simple-timeline plugin loaded
getTimelineMonths(timelineName, overrides) ==
  IF timelineName \in DOMAIN overrides /\ Len(overrides[timelineName]) > 0
  THEN overrides[timelineName]
  ELSE defaultMonths

\* JavaScript %: the sign of the result is the sign of the dividend
jsRem(a, n) == IF a >= 0 THEN a % n ELSE -((-a) % n)

mNameAt(months, m, i) == IF i >= 0 THEN <<months[i + 1]>> ELSE toDecimal(m)

mName(months, m) == mNameAt(months, m, jsRem(m - 1 + Len(months), Len(months)))

fmtYmd(months, x) == toDecimal(x.d) \o <<" ">> \o mName(months, x.m) \o <<" ">> \o toDecimal(x.y)

EnDash == "--"

\* formatRangeWithMonths with the month name taken at index m instead of m - 1
formatRangeWithMonths_offByOne(months, start, end) ==
  IF ~end.has THEN fmtYmd(months, [start EXCEPT !.m = @ + 1])
  ELSE IF start.y = end.y /\ start.m = end.m /\ start.d = end.d
       THEN fmtYmd(months, [start EXCEPT !.m = @ + 1])
  ELSE IF start.y = end.y /\ start.m = end.m
       THEN toDecimal(start.d) \o <<EnDash>> \o toDecimal(end.d) \o <<" ">>
            \o mName(months, start.m + 1) \o <<" ">> \o toDecimal(start.y)
  ELSE fmtYmd(months, [start EXCEPT !.m = @ + 1]) \o <<" ", EnDash, " ">>
       \o fmtYmd(months, [end EXCEPT !.m = @ + 1])

formatRangeWithMonths(months, start, end) ==
  IF ~end.has THEN fmtYmd(months, start)
  ELSE IF start.y = end.y /\ start.m = end.m /\ start.d = end.d THEN fmtYmd(months, start)
  ELSE IF start.y = end.y /\ start.m = end.m
       THEN toDecimal(start.d) \o <<EnDash>> \o toDecimal(end.d) \o <<" ">>
            \o mName(months, start.m) \o <<" ">> \o toDecimal(start.y)
  ELSE fmtYmd(months, start) \o <<" ", EnDash, " ">> \o fmtYmd(months, end)

---------------------------------------------------------------------------
(* scanTimelineEntries *)

NoText  == [has |-> FALSE, text |-> <<>>]
Text(t) == [has |-> TRUE, text |-> t]

\* A frontmatter value that is absent
NoValue == [form |-> "none", text |-> <<>>, items |-> <<>>, finite |-> FALSE,
            y |-> 0, m |-> 0, d |-> 0]

StringValue(t) == [NoValue EXCEPT !.form = "string", !.text = t]

ArrayValue(items) == [NoValue EXCEPT !.form = "array", !.items = items]

RecordValue(y, m, d) == [NoValue EXCEPT !.form = "record", !.finite = TRUE,
                                        !.y = y, !.m = m, !.d = d]

\* JavaScript truthiness of a frontmatter value
Truthy(val) == val.form \in {"array", "record"} \/ (val.form = "string" /\ val.text # <<>>)

lastDot(n) ==
  LET hits == {i \in 1..Len(n) : n[i] = "."}
  IN  IF hits = {} THEN 0 ELSE CHOOSE i \in hits : \A j \in hits : j <= i

\* TFile.basename
basename(p) ==
  LET n == fileName(p)
  IN  IF lastDot(n) = 0 THEN n ELSE SubSeq(n, 1, lastDot(n) - 1)

ImageExts == {<<"p", "n", "g">>, <<"j", "p", "g">>, <<"j", "p", "e", "g">>,
              <<"w", "e", "b", "p">>, <<"g", "i", "f">>, <<"a", "v", "i", "f">>,
              <<"b", "m", "p">>, <<"s", "v", "g">>}

\* /\.(png|jpe?g|webp|gif|avif|bmp|svg)$/i
hasImageExt(n) == \E e \in ImageExts : endsWith(toLowerCase(n), <<".">> \o e)

\* resolveInternalAttachmentPath gives null / pickTimelineImagePath gives undefined
NoPath == <<>>

IsUrl(t) ==
  \/ startsWith(toLowerCase(t), <<"h", "t", "t", "p", ":", "/", "/">>)
  \/ startsWith(toLowerCase(t), <<"h", "t", "t", "p", "s", ":", "/", "/">>)

IsDataUrl(t) == startsWith(toLowerCase(t), <<"d", "a", "t", "a", ":">>)

\* metadataCache.getFirstLinkpathDest: the file at that path, or the file of that name
linkpathHits(cx, link) ==
  {q \in DOMAIN cx.files \cup cx.notePaths :
     fileName(q) = link \/ fileName(q) = link \o DotMd}

getFirstLinkpathDest(cx, link) ==
  IF link \in DOMAIN cx.files \cup cx.notePaths THEN link
  ELSE IF linkpathHits(cx, link) # {} THEN CHOOSE q \in linkpathHits(cx, link) : TRUE
  ELSE NoPath

\* stripped.slice(0, pipe).trim() when there is a pipe
beforePipe(stripped) ==
  IF indexOf(stripped, <<"|">>) >= 0 THEN trim(slice(stripped, 0, indexOf(stripped, <<"|">>)))
  ELSE stripped

\* s.startsWith("[[") && s.endsWith("]]") ? s.slice(2, -2).trim() : s
insideBrackets(t) ==
  IF startsWith(t, <<"[", "[">>) /\ endsWith(t, <<"]", "]">>)
  THEN trim(slice(t, 2, Len(t) - 2)) ELSE t

resolveLink(cx, link) ==
  IF getFirstLinkpathDest(cx, link) # NoPath THEN getFirstLinkpathDest(cx, link)
  ELSE IF normalizePath(link) \in DOMAIN cx.files \cup cx.notePaths THEN normalizePath(link)
  ELSE NoPath

resolveTrimmed(cx, t) ==
  IF t = <<>> \/ IsUrl(t) \/ IsDataUrl(t) THEN NoPath
  ELSE resolveLink(cx, beforePipe(insideBrackets(t)))

resolveInternalAttachmentPath(cx, raw, fromPath) == resolveTrimmed(cx, trim(raw))

\* An embed or link of the note, when it names an image that is in the vault
internalImage(cx, l, fromPath) ==
  IF hasImageExt(l) THEN resolveInternalAttachmentPath(cx, l, fromPath) ELSE NoPath

\* The first link of a list with an image extension that resolves to a file
RECURSIVE firstInternalImage(_, _, _)
firstInternalImage(cx, ls, fromPath) ==
  IF ls = <<>> THEN NoPath
  ELSE IF internalImage(cx, Head(ls), fromPath) # NoPath
       THEN internalImage(cx, Head(ls), fromPath)
       ELSE firstInternalImage(cx, Tail(ls), fromPath)

\* parent.children that are image files
imagesBeside(cx, f) ==
  {q \in DOMAIN cx.files : dirName(q) = dirName(f.path) /\ hasImageExt(fileName(q))}

\* internal ?? fmImage.trim()
orAsWritten(internal, text) == IF internal # NoPath THEN internal ELSE trim(text)

orElse(found, other) == IF found # NoPath THEN found ELSE other

pickTimelineImagePath(cx, f) ==
  IF f.image.form = "string" /\ trim(f.image.text) # <<>>
  THEN orAsWritten(resolveInternalAttachmentPath(cx, f.image.text, f.path), f.image.text)
  ELSE orElse(firstInternalImage(cx, f.embeds, f.path),
         orElse(firstInternalImage(cx, f.links, f.path),
           IF imagesBeside(cx, f) # {} THEN CHOOSE q \in imagesBeside(cx, f) : TRUE
           ELSE NoPath))

\* /^(#{1,6}\s|>\s|[-*+]\s|\d+\.\s)/
RECURSIVE leadingCount(_, _)
leadingCount(t, S) == IF t # <<>> /\ Head(t) \in S THEN 1 + leadingCount(Tail(t), S) ELSE 0

wsAt(t, i) == i <= Len(t) /\ IsWs(t[i])

headingMark(t, hashes) == hashes \in 1..6 /\ wsAt(t, hashes + 1)

numberMark(t, digits) ==
  digits >= 1 /\ Len(t) > digits /\ t[digits + 1] = "." /\ wsAt(t, digits + 2)

isBlockMarkup(t) ==
  \/ headingMark(t, leadingCount(t, {"#"}))
  \/ t # <<>> /\ Head(t) \in {">", "-", "*", "+"} /\ wsAt(t, 2)
  \/ numberMark(t, leadingCount(t, {"0", "1", "2", "3", "4", "5", "6", "7", "8", "9"}))

\* .replace(/[*_~]/g, "")
stripEmphasis(t) == SelectSeq(t, LAMBDA c : c \notin {"*", "_", "~"})

\* Each character with whether it opens a run of white space or is none
runMarked(t, afterWs) ==
  [i \in 1..Len(t) |->
     [c |-> IF IsWs(t[i]) THEN " " ELSE t[i],
      keep |-> ~IsWs(t[i]) \/ (IF i = 1 THEN ~afterWs ELSE ~IsWs(t[i - 1]))]]

keptChars(marked) == [i \in 1..Len(marked) |-> marked[i].c]

\* .replace(/\s+/g, " ")
squashWs(t, afterWs) == keptChars(SelectSeq(runMarked(t, afterWs), LAMBDA x : x.keep))

stripEmphasisAndSquash(t, afterWs) == squashWs(stripEmphasis(t), afterWs)

SummaryLimit == 500

Ellipsis == "..."

\* clean.length > 500 ? clean.slice(0, 497) + "..." : clean
cutSummary(clean) ==
  IF Len(clean) > SummaryLimit THEN slice(clean, 0, SummaryLimit - 3) \o <<Ellipsis>>
  ELSE clean

cleanParagraph(para) == trim(stripEmphasisAndSquash(para, FALSE))

\* The loop of extractFirstParagraph over the paragraphs of the body; the
\* bodies considered hold no markdown image, link or inline code
RECURSIVE firstParagraph(_)
firstParagraph(paras) ==
  IF paras = <<>> THEN NoText
  ELSE IF trim(Head(paras)) = <<>> \/ isBlockMarkup(trim(Head(paras)))
          \/ cleanParagraph(trim(Head(paras))) = <<>>
       THEN firstParagraph(Tail(paras))
       ELSE Text(cutSummary(cleanParagraph(trim(Head(paras)))))

extractFirstParagraph(cx, f) ==
  IF Fails(cx, "read", f.path) THEN NoText ELSE firstParagraph(f.paras)

\* entrySummary with the key tested for a truthy value instead of its presence
entrySummary_truthy(cx, f) ==
  IF f.summary.present /\ f.summary.form \in {"string", "number"} /\ f.summary.text # <<>>
  THEN Text(f.summary.text)
  ELSE extractFirstParagraph(cx, f)

\* The summary of an entry (lines 800-821)
entrySummary(cx, f) ==
  IF f.summary.present
  THEN IF f.summary.form = "string" THEN Text(f.summary.text)
       ELSE IF f.summary.form = "number" THEN Text(toDecimal(f.summary.num))
       ELSE IF f.summary.form = "null" THEN Text(<<>>)
       ELSE Text(f.summary.text)
  ELSE extractFirstParagraph(cx, f)

TimelineScanMode == "publishTrueOnly"

entryTitle(f) ==
  IF f.title.form = "string" /\ trim(f.title.text) # <<>> THEN trim(f.title.text)
  ELSE basename(f.path)

entryEnd(f) == IF Truthy(f.fcEnd) THEN parseFcDate(f.fcEnd) ELSE NoYmd

\* out.push({timelines, imgInternal, entry}) (lines 823-837)
scannedEntry(cx, f, start, timelines, img) ==
  [timelines |-> timelines,
   imgInternal |-> IF img # NoPath THEN resolveInternalAttachmentPath(cx, img, f.path)
                   ELSE NoPath,
   entry |-> [notePath |-> f.path, title |-> entryTitle(f), summary |-> entrySummary(cx, f),
              start |-> start, end |-> entryEnd(f), img |-> img, dateText |-> <<>>]]

scanTimelineEntryDated(cx, f, start, timelines) ==
  IF ~Truthy(f.fcDate) \/ ~start.has THEN <<>>
  ELSE IF timelines = <<>> THEN <<>>
  ELSE <<scannedEntry(cx, f, start, timelines, pickTimelineImagePath(cx, f))>>

\* The body of the loop of scanTimelineEntries for one note
scanTimelineEntry(cx, f) ==
  IF TimelineScanMode = "publishTrueOnly" /\ ~f.publish THEN <<>>
  ELSE IF ~f.hasFm THEN <<>>
  ELSE scanTimelineEntryDated(cx, f, parseFcDate(f.fcDate), splitTimelineNames(f.timelines))

\* scanTimelineEntries over the notes; the other markdown files of the vault
\* carry no date key and yield no entry
RECURSIVE scanTimelineEntries(_, _)
scanTimelineEntries(cx, ds) ==
  IF ds = <<>> THEN <<>>
  ELSE scanTimelineEntry(cx, Head(ds)) \o scanTimelineEntries(cx, Tail(ds))

---------------------------------------------------------------------------
(* generateTimelineDataNotes, cleanupTimelineNotes *)

timelineDataNoteKeyForTimelineName(name) ==
  normalizePath(TimelinesFolder \o <<"/", "t", "-">> \o hashKeyToId(name))

\* The loop that fans the scanned entries out by timeline name, as the
\* sequence of <<name, entry>> in insertion order
RECURSIVE fanOut(_)
fanOut(scanned) ==
  IF scanned = <<>> THEN <<>>
  ELSE [i \in 1..Len(Head(scanned).timelines) |->
          [name |-> Head(scanned).timelines[i], entry |-> Head(scanned).entry]]
       \o fanOut(Tail(scanned))

\* The keys of the byTimeline map in insertion order
RECURSIVE mapKeys(_, _)
mapKeys(pairs, seen) ==
  IF pairs = <<>> THEN <<>>
  ELSE IF Head(pairs).name \in seen THEN mapKeys(Tail(pairs), seen)
  ELSE <<Head(pairs).name>> \o mapKeys(Tail(pairs), seen \cup {Head(pairs).name})

RECURSIVE mapGet(_, _)
mapGet(pairs, name) ==
  IF pairs = <<>> THEN <<>>
  ELSE (IF Head(pairs).name = name THEN <<Head(pairs).entry>> ELSE <<>>)
       \o mapGet(Tail(pairs), name)

\* entries.sort((a, b) => ymdSortKey(a.start) - ymdSortKey(b.start)), a stable sort
RECURSIVE insertByStart(_, _)
insertByStart(sorted, e) ==
  IF sorted = <<>> THEN <<e>>
  ELSE IF ymdSortKey(sorted[Len(sorted)].start) <= ymdSortKey(e.start) THEN Append(sorted, e)
  ELSE Append(insertByStart(SubSeq(sorted, 1, Len(sorted) - 1), e), sorted[Len(sorted)])

RECURSIVE sortByStart(_)
sortByStart(es) ==
  IF es = <<>> THEN <<>>
  ELSE insertByStart(sortByStart(SubSeq(es, 1, Len(es) - 1)), es[Len(es)])

\* e.dateText = formatRangeWithMonths(months, e.start, e.end) for every entry
withDateText(entries, months) ==
  [i \in 1..Len(entries) |->
     [entries[i] EXCEPT !.dateText =
        formatRangeWithMonths(months, entries[i].start, entries[i].end)]]

timelineWritten(cx, name, notePath, before) ==
  IF cx.thrown THEN cx
  ELSE [cx EXCEPT !.titems = Append(@, [name |-> name, notePath |-> notePath,
                                       wrote |-> Len(cx.log) > Len(before.log)])]

timelineItemAt(cx, name, months, entries, notePath, now) ==
  timelineWritten(
    writeOrUpdateMarkdown([cx EXCEPT !.tkeep = @ \cup {notePath}], notePath,
      wrapJsonAsPublishNote("timeline",
        [timelineName |-> name, months |-> months,
         entries |-> sortByStart(withDateText(entries, months))],
        [timelineName |-> name, timelineKey |-> timelineDataNoteKeyForTimelineName(name)],
        now)),
    name, notePath, cx)

\* timelineItem formatting every group with the month table of timeline "A"
timelineItem_monthsOfA(cx, name, entries, now) ==
  timelineItemAt(cx, name, getTimelineMonths(<<"A">>, MonthOverrides), entries,
                 timelineDataNotePathForTimelineName(name), now)

\* The body of the loop over byTimeline.entries() (lines 874-898)
timelineItem(cx, name, entries, now) ==
  timelineItemAt(cx, name, getTimelineMonths(name, MonthOverrides), entries,
                 timelineDataNotePathForTimelineName(name), now)

RECURSIVE timelineLoop(_, _, _, _)
timelineLoop(cx, names, pairs, now) ==
  IF names = <<>> \/ cx.thrown THEN cx
  ELSE timelineLoop(timelineItem(cx, Head(names), mapGet(pairs, Head(names)), now),
                    Tail(names), pairs, now)

cleanupTimelineNotes(cx, keep) ==
  IF cx.thrown THEN cx
  ELSE cleanupLoop(cx, markdownFilesUnder(cx, TimelinesFolder), <<"t", "-">>, keep)

\* const scanned = await this.scanTimelineEntries(), kept in the context
scanTimeline(cx, ds) ==
  IF cx.thrown THEN cx ELSE [cx EXCEPT !.scanned = scanTimelineEntries(cx, ds)]

timelinePassOver(cx, pairs, now) == timelineLoop(cx, mapKeys(pairs, {}), pairs, now)

\* The pass from the fan-out on (lines 866-898)
timelinePass(cx, now) ==
  IF cx.thrown THEN cx ELSE timelinePassOver(cx, fanOut(cx.scanned), now)

cleanupAfterTimelines(cx) == cleanupTimelineNotes(cx, cx.tkeep)

generateTimelineDataNotes(cx, ds, now) ==
  NoticeIfOk(
    cleanupAfterTimelines(
      timelinePass(
        scanTimeline(
          ensureFolderFor(cx, normalizePath(TimelinesFolder \o <<"/", "x">> \o DotMd)),
          ds),
        now)),
    "Generated timeline data notes", <<>>)

---------------------------------------------------------------------------
(* Asset collection: addAssetsFromMarkersJson, addAssetsFromLibraryJson *)

\* A JSON member that is a string, or is missing or of another type
Str(t) == [isStr |-> TRUE, text |-> t]
NotStr == [isStr |-> FALSE, text |-> <<>>]

NonBlank(v) == v.isStr /\ trim(v.text) # <<>>

\* Set.prototype.add on a set kept in insertion order
addAsset(assets, p) ==
  IF \E i \in 1..Len(assets) : assets[i] = p THEN assets ELSE Append(assets, p)

RECURSIVE addAll(_, _)
addAll(assets, ps) ==
  IF ps = <<>> THEN assets ELSE addAll(addAsset(assets, Head(ps)), Tail(ps))

\* data.bases: strings and objects with a path; data.overlays: objects with a path
RECURSIVE pathsOfItems(_, _)
pathsOfItems(items, forms) ==
  IF items = <<>> THEN <<>>
  ELSE LET it == Head(items)
       IN  (IF it.form \in forms /\ trim(it.path) # <<>>
            THEN <<normalizePath(trim(it.path))>> ELSE <<>>)
           \o pathsOfItems(Tail(items), forms)

RECURSIVE stickerPaths(_)
stickerPaths(markers) ==
  IF markers = <<>> THEN <<>>
  ELSE LET m == Head(markers)
       IN  (IF m.type = "sticker" /\ NonBlank(m.stickerPath)
            THEN <<normalizePath(trim(m.stickerPath.text))>> ELSE <<>>)
           \o stickerPaths(Tail(markers))

RECURSIVE bakedPaths(_)
bakedPaths(drawings) ==
  IF drawings = <<>> THEN <<>>
  ELSE (IF NonBlank(Head(drawings).bakedPath)
        THEN <<normalizePath(trim(Head(drawings).bakedPath.text))>> ELSE <<>>)
       \o bakedPaths(Tail(drawings))

\* resolveVaultFile(path) finds a file whose content JSON.parse accepts
ParsesAt(cx, path) ==
  /\ normalizePath(path) \in DOMAIN cx.files
  /\ cx.files[normalizePath(path)].kind = "json"
  /\ cx.files[normalizePath(path)].ok

addAssetsFromMarkersJson(cx, markersPath, assets) ==
  IF ~ParsesAt(cx, markersPath) \/ Fails(cx, "read", normalizePath(markersPath)) THEN assets
  ELSE LET data == cx.files[normalizePath(markersPath)].val
       IN  addAll(assets, pathsOfItems(data.bases, {"string", "object"})
                          \o pathsOfItems(data.overlays, {"object"})
                          \o stickerPaths(data.markers)
                          \o bakedPaths(data.drawings))

RECURSIVE iconPaths(_)
iconPaths(icons) ==
  IF icons = <<>> THEN <<>>
  ELSE LET src == Head(icons).pathOrDataUrl
       IN  (IF NonBlank(src) /\ ~startsWith(trim(src.text), <<"d", "a", "t", "a", ":">>)
               /\ ~IsUrl(trim(src.text))
            THEN <<normalizePath(trim(src.text))>> ELSE <<>>)
           \o iconPaths(Tail(icons))

RECURSIVE presetStickerPaths(_)
presetStickerPaths(stickers) ==
  IF stickers = <<>> THEN <<>>
  ELSE LET p == Head(stickers).imagePath
       IN  (IF NonBlank(p) /\ ~startsWith(trim(p.text), <<"d", "a", "t", "a", ":">>)
            THEN <<normalizePath(trim(p.text))>> ELSE <<>>)
           \o presetStickerPaths(Tail(stickers))

RECURSIVE collectionStickerPaths(_)
collectionStickerPaths(cols) ==
  IF cols = <<>> THEN <<>>
  ELSE presetStickerPaths(Head(cols).stickers) \o collectionStickerPaths(Tail(cols))

addAssetsFromLibraryJson(cx, libraryJsonPath, assets) ==
  IF ~ParsesAt(cx, libraryJsonPath) \/ Fails(cx, "read", normalizePath(libraryJsonPath))
  THEN assets
  ELSE LET obj == cx.files[normalizePath(libraryJsonPath)].val
       IN  addAll(assets, iconPaths(obj.icons) \o collectionStickerPaths(obj.baseCollections))

---------------------------------------------------------------------------
(* Linked notes: buildLibraryLinkIndex, addLinkedNotesFromMarkersJson *)

stripWikiBrackets(raw) ==
  LET t == trim(raw)
  IN  IF startsWith(t, <<"[", "[">>) /\ endsWith(t, <<"]", "]">>)
      THEN trim(slice(t, 2, Len(t) - 2)) ELSE t

cutAt(t, c) == IF indexOf(t, <<c>>) >= 0 THEN trim(slice(t, 0, indexOf(t, <<c>>))) ELSE t

normalizeLinkTarget(raw) ==
  LET t == stripWikiBrackets(raw)
  IN  IF t = <<>> \/ IsUrl(t) THEN <<>>
      ELSE cutAt(cutAt(cutAt(t, "|"), "#"), "^")

\* extension?.toLowerCase() === "md"
hasMdExtension(p) == endsWith(toLowerCase(p), DotMd)

resolveLinkedNotePath(cx, link, fromNotePath) ==
  LET target == normalizeLinkTarget(link)
      byPath == normalizePath(target)
      dest   == getFirstLinkpathDest(cx, target)
  IN  IF target = <<>> THEN NoPath
      ELSE IF (byPath \in DOMAIN cx.files \/ byPath \in cx.notePaths) /\ hasMdExtension(byPath)
      THEN byPath
      ELSE IF dest # NoPath /\ hasMdExtension(dest) THEN dest
      ELSE NoPath

EmptyMap == [k \in {} |-> <<>>]

mapSet(f, key, v) == [k \in DOMAIN f \cup {key} |-> IF k = key THEN v ELSE f[k]]

RECURSIVE iconDefaultLinksOf(_, _)
iconDefaultLinksOf(icons, acc) ==
  IF icons = <<>> THEN acc
  ELSE LET it == Head(icons)
       IN  iconDefaultLinksOf(Tail(icons),
             IF NonBlank(it.key) /\ NonBlank(it.defaultLink)
             THEN mapSet(acc, trim(it.key.text), trim(it.defaultLink.text))
             ELSE acc)

RECURSIVE frameTexts(_, _)
frameTexts(frames, member) ==
  IF frames = <<>> THEN <<>>
  ELSE (IF NonBlank(Head(frames)[member]) THEN <<trim(Head(frames)[member].text)>> ELSE <<>>)
       \o frameTexts(Tail(frames), member)

RECURSIVE swapPresetsOfPins(_, _)
swapPresetsOfPins(pins, acc) ==
  IF pins = <<>> THEN acc
  ELSE LET sp == Head(pins)
           id == trim(sp.id.text)
           frameLinks    == frameTexts(sp.frames, "link")
           frameIconKeys == frameTexts(sp.frames, "iconKey")
       IN  swapPresetsOfPins(Tail(pins),
             IF ~NonBlank(sp.id) THEN acc
             ELSE IF id \notin DOMAIN acc
             THEN mapSet(acc, id, [frameLinks |-> frameLinks, frameIconKeys |-> frameIconKeys])
             ELSE mapSet(acc, id, [frameLinks |-> acc[id].frameLinks \o frameLinks,
                                   frameIconKeys |-> acc[id].frameIconKeys \o frameIconKeys]))

RECURSIVE swapPresetsOf(_, _)
swapPresetsOf(cols, acc) ==
  IF cols = <<>> THEN acc
  ELSE swapPresetsOf(Tail(cols), swapPresetsOfPins(Head(cols).swapPins, acc))

\* Array.from(new Set(list))
dedupe(list) == addAll(<<>>, list)

buildLibraryLinkIndex(cx, libraryJsonPath) ==
  IF ~ParsesAt(cx, libraryJsonPath) \/ Fails(cx, "read", normalizePath(libraryJsonPath))
  THEN [iconDefaultLinks |-> EmptyMap, swapPresets |-> EmptyMap]
  ELSE LET obj     == cx.files[normalizePath(libraryJsonPath)].val
           presets == swapPresetsOf(obj.baseCollections, EmptyMap)
       IN  [iconDefaultLinks |-> iconDefaultLinksOf(obj.icons, EmptyMap),
            swapPresets |-> [k \in DOMAIN presets |->
                               [frameLinks |-> dedupe(presets[k].frameLinks),
                                frameIconKeys |-> dedupe(presets[k].frameIconKeys)]]]

RECURSIVE nonBlankTexts(_)
nonBlankTexts(vs) ==
  IF vs = <<>> THEN <<>>
  ELSE (IF NonBlank(Head(vs)) THEN <<Head(vs).text>> ELSE <<>>) \o nonBlankTexts(Tail(vs))

RECURSIVE defaultLinksOfKeys(_, _)
defaultLinksOfKeys(keys, iconDefaultLinks) ==
  IF keys = <<>> THEN <<>>
  ELSE (IF Head(keys) \in DOMAIN iconDefaultLinks THEN <<iconDefaultLinks[Head(keys)]>>
        ELSE <<>>)
       \o defaultLinksOfKeys(Tail(keys), iconDefaultLinks)

\* linksOfMarker going on into the note a frame link resolves to: the link
\* to note t found inside note v is added with the links of the preset
linksOfMarker_recursing(m, libIndex, useIndex) ==
  LET own    == IF NonBlank(m.link) THEN <<m.link.text>> ELSE <<>>
      key    == trim(m.swapKey.text)
      preset == IF useIndex /\ NonBlank(m.swapKey) /\ key \in DOMAIN libIndex.swapPresets
                THEN libIndex.swapPresets[key].frameLinks
                     \o defaultLinksOfKeys(libIndex.swapPresets[key].frameIconKeys,
                                           libIndex.iconDefaultLinks)
                     \o <<<<"t">>>>
                ELSE <<>>
  IN  IF m.type # "swap" THEN own
      ELSE own \o nonBlankTexts(m.swapLinks) \o preset

\* The raw links one marker contributes, in the order the loop adds them
linksOfMarker(m, libIndex, useIndex) ==
  LET own    == IF NonBlank(m.link) THEN <<m.link.text>> ELSE <<>>
      key    == trim(m.swapKey.text)
      preset == IF useIndex /\ NonBlank(m.swapKey) /\ key \in DOMAIN libIndex.swapPresets
                THEN libIndex.swapPresets[key].frameLinks
                     \o defaultLinksOfKeys(libIndex.swapPresets[key].frameIconKeys,
                                           libIndex.iconDefaultLinks)
                ELSE <<>>
  IN  IF m.type # "swap" THEN own
      ELSE own \o nonBlankTexts(m.swapLinks) \o preset

RECURSIVE linksOfMarkers(_, _, _)
linksOfMarkers(markers, libIndex, useIndex) ==
  IF markers = <<>> THEN <<>>
  ELSE linksOfMarker(Head(markers), libIndex, useIndex)
       \o linksOfMarkers(Tail(markers), libIndex, useIndex)

RECURSIVE addLinks(_, _, _, _)
addLinks(cx, assets, links, fromNotePath) ==
  IF links = <<>> THEN assets
  ELSE LET q == resolveLinkedNotePath(cx, Head(links), fromNotePath)
       IN  addLinks(cx, IF q # NoPath THEN addAsset(assets, normalizePath(q)) ELSE assets,
                    Tail(links), fromNotePath)

addLinkedNotesFromMarkersJson(cx, markersPath, fromNotePath, assets, libIndex, useIndex) ==
  IF ~ParsesAt(cx, markersPath) \/ Fails(cx, "read", normalizePath(markersPath)) THEN assets
  ELSE addLinks(cx, assets,
                linksOfMarkers(cx.files[normalizePath(markersPath)].val.markers,
                               libIndex, useIndex),
                fromNotePath)

---------------------------------------------------------------------------
(* generateAssetsManifest, generateTimelineAssetsManifest *)

AssetsNotePath == PublishRoot \o <<"/", "a", "s", "s", "e", "t", "s">> \o DotMd

TimelineAssetsNotePath == TimelineRoot \o <<"/", "a", "s", "s", "e", "t", "s">> \o DotMd

\* app.vault.configDir
ConfigDir == <<".", "o", "b", "s", "i", "d", "i", "a", "n">>

IncludePinLinkedNotesInAssets == FALSE

\* a.localeCompare(b, undefined, {sensitivity: "base", numeric: true}) on ASCII
\* text: letters without case, runs of digits by value, the rest by code
RECURSIVE localeCompare(_, _)
localeCompare(a, b) ==
  IF a = <<>> /\ b = <<>> THEN 0
  ELSE IF a = <<>> THEN -1
  ELSE IF b = <<>> THEN 1
  ELSE IF IsDigit(Head(a)) /\ IsDigit(Head(b))
  THEN LET da == takeDigits(a, Len(a))
           db == takeDigits(b, Len(b))
           na == digitsToNumber(da)
           nb == digitsToNumber(db)
       IN  IF na < nb THEN -1
           ELSE IF na > nb THEN 1
           ELSE localeCompare(sliceFrom(a, Len(da)), sliceFrom(b, Len(db)))
  ELSE LET ca == charCode[lowerChar[Head(a)]]
           cb == charCode[lowerChar[Head(b)]]
       IN  IF ca < cb THEN -1
           ELSE IF ca > cb THEN 1
           ELSE localeCompare(Tail(a), Tail(b))

RECURSIVE insertByLocale(_, _)
insertByLocale(sorted, e) ==
  IF sorted = <<>> THEN <<e>>
  ELSE IF localeCompare(sorted[Len(sorted)], e) <= 0 THEN Append(sorted, e)
  ELSE Append(insertByLocale(SubSeq(sorted, 1, Len(sorted) - 1), e), sorted[Len(sorted)])

RECURSIVE sortByLocale(_)
sortByLocale(ps) ==
  IF ps = <<>> THEN <<>>
  ELSE insertByLocale(sortByLocale(SubSeq(ps, 1, Len(ps) - 1)), ps[Len(ps)])

endsWithJson(q) == endsWith(toLowerCase(q), <<".", "j", "s", "o", "n">>)

\* p.endsWith(".md") ? p.slice(0, -3) : p
linkOf(q) == IF endsWith(q, DotMd) THEN slice(q, 0, Len(q) - 3) ELSE q

\* The manifest note: its title line and its bullet links in order
ManifestNote(title, out) ==
  [kind |-> "md", publish |-> TRUE, data |-> "manifest", meta |-> [title |-> title],
   at |-> 0, obj |-> [i \in 1..Len(out) |-> linkOf(out[i])]]

\* The first loop over the maps (lines 966-969)
RECURSIVE addDeclaredAssets(_, _)
addDeclaredAssets(assets, maps) ==
  IF maps = <<>> THEN assets
  ELSE LET m == Head(maps)
           declared == [i \in 1..Len(m.assetPaths) |-> normalizePath(m.assetPaths[i])]
       IN  addDeclaredAssets(
             addAll(addAsset(assets, markerNotePathForMarkersPath(m.markersPath)), declared),
             Tail(maps))

RECURSIVE addLinkedNotesOfMaps(_, _, _, _)
addLinkedNotesOfMaps(cx, assets, maps, libIndex) ==
  IF maps = <<>> THEN assets
  ELSE addLinkedNotesOfMaps(cx,
         addLinkedNotesFromMarkersJson(cx, Head(maps).markersPath, Head(maps).notePath,
                                       assets, libIndex, TRUE),
         Tail(maps), libIndex)

RECURSIVE addMarkerAssetsOfMaps(_, _, _)
addMarkerAssetsOfMaps(cx, assets, maps) ==
  IF maps = <<>> THEN assets
  ELSE addMarkerAssetsOfMaps(cx, addAssetsFromMarkersJson(cx, Head(maps).markersPath, assets),
                             Tail(maps))

\* collectMapAssets adding the linked notes whatever the setting
collectMapAssets_always(cx, maps, deep) ==
  LET a1 == addAsset(addAsset(<<>>, libraryNotePath), AssetsNotePath)
      a2 == addDeclaredAssets(a1, maps)
      a3 == addLinkedNotesOfMaps(cx, a2, maps, buildLibraryLinkIndex(cx, LibJsonPath))
      a4 == addMarkerAssetsOfMaps(cx, a3, maps)
  IN  addAssetsFromLibraryJson(cx, LibJsonPath, a4)

\* The AssetSet generateAssetsManifest accumulates before filtering
collectMapAssets(cx, maps, deep) ==
  LET a1 == addAsset(addAsset(<<>>, libraryNotePath), AssetsNotePath)
      a2 == addDeclaredAssets(a1, maps)
      a3 == IF deep
            THEN addLinkedNotesOfMaps(cx, a2, maps, buildLibraryLinkIndex(cx, LibJsonPath))
            ELSE a2
      a4 == addMarkerAssetsOfMaps(cx, a3, maps)
  IN  addAssetsFromLibraryJson(cx, LibJsonPath, a4)

\* Filter + sort (lines 990-997)
mapAssetList(assets) ==
  LET configDirPrefix == normalizePath(ConfigDir \o <<"/">>)
      notConfig(q) == q # <<>> /\ ~startsWith(normalizePath(q), configDirPrefix)
      notJson(q)   == ~endsWithJson(q)
  IN  sortByLocale(SelectSeq(SelectSeq(assets, notConfig), notJson))

\* The AssetSet a manifest pass collected, kept for the record of the command
withAssets(cx, assets) == IF cx.thrown THEN cx ELSE [cx EXCEPT !.assets = assets]

\* ensureFolderFor, the note text, writeOrUpdateMarkdown and the notice that
\* end both manifest passes
writeManifest(cx, notePath, title, assets, out) ==
  NoticeIfOk(
    withAssets(
      writeOrUpdateMarkdown(ensureFolderFor(cx, notePath), notePath, ManifestNote(title, out)),
      assets),
    "Generated", notePath)

writeMapManifest(cx, assets) ==
  writeManifest(cx, normalizePath(AssetsNotePath), "maps", assets, mapAssetList(assets))

\* generateAssetsManifest once scanZoommaps has returned
generateAssetsManifestOver(cx, deep) ==
  IF cx.thrown THEN cx ELSE writeMapManifest(cx, collectMapAssets(cx, cx.maps, deep))

generateAssetsManifest(cx, ds, deep) == generateAssetsManifestOver(scanZoommaps(cx, ds), deep)

\* The first loop of generateTimelineAssetsManifest (lines 914-918)
RECURSIVE timelineScanAssets(_, _)
timelineScanAssets(assets, scanned) ==
  IF scanned = <<>> THEN assets
  ELSE timelineScanAssets(
         addAll(addAsset(assets, normalizePath(Head(scanned).entry.notePath)),
                IF Head(scanned).imgInternal # NoPath
                THEN <<normalizePath(Head(scanned).imgInternal)>> ELSE <<>>),
         Tail(scanned))

\* for (const tl of timelines) assets.add(timelineDataNotePathForTimelineName(tl))
addTimelineNotes(assets, names) ==
  addAll(assets, [i \in 1..Len(names) |-> timelineDataNotePathForTimelineName(names[i])])

\* The AssetSet generateTimelineAssetsManifest accumulates before filtering
timelineAssetsOf(scanned) ==
  addAsset(addTimelineNotes(timelineScanAssets(<<>>, scanned),
                            dedupe(mapKeys(fanOut(scanned), {}))),
           TimelineAssetsNotePath)

\* Filter + sort (lines 926-929)
timelineAssetList(assets) ==
  LET nonEmpty(q) == q # <<>>
      notJson(q)  == ~endsWithJson(q)
  IN  sortByLocale(SelectSeq(SelectSeq(assets, nonEmpty), notJson))

writeTimelineManifest(cx, assets) ==
  writeManifest(cx, TimelineAssetsNotePath, "timeline", assets, timelineAssetList(assets))

generateTimelineAssetsManifest(cx, ds) ==
  IF cx.thrown THEN cx
  ELSE writeTimelineManifest(cx, timelineAssetsOf(scanTimelineEntries(cx, ds)))

---------------------------------------------------------------------------
(* The commands *)

JsPath  == <<"p", "u", "b", "l", "i", "s", "h", ".", "j", "s">>
CssPath == <<"p", "u", "b", "l", "i", "s", "h", ".", "c", "s", "s">>

\* adapter.write(p, next) when upsertRootFileBlock decides to write
adapterWrite(cx, which, path, result) ==
  IF ~result[2] THEN cx
  ELSE IF Fails(cx, "adapter.write", path) THEN Throw(cx)
  ELSE [cx EXCEPT ![which] = result[1], !.log = Append(@, <<"adapter.write", path>>)]

installJs(cx) ==
  IF cx.thrown THEN cx
  ELSE adapterWrite(cx, "js", JsPath,
         upsertRootFileBlock(cx.js, ZM_BEGIN_JS, ZM_END_JS, buildPublishJsBlock(TRUE)))

installCss(cx) ==
  IF cx.thrown THEN cx
  ELSE adapterWrite(cx, "css", CssPath,
         upsertRootFileBlock(cx.css, ZM_BEGIN_CSS, ZM_END_CSS, buildPublishCssBlock))

\* installPublishRuntime on the store of a command
installRuntime(cx) ==
  NoticeIfOk(installCss(installJs(cx)), "Publish runtime installed/updated", <<>>)

\* An awaited stage of a prepare command returned: the stage is noted with
\* the length of the log at its end
Staged(cx, name) ==
  IF cx.thrown THEN cx
  ELSE [cx EXCEPT !.stages = Append(@, [name |-> name, logEnd |-> Len(cx.log)])]

mapStages(cx, ds, now) ==
  Staged(generateAssetsManifest(
           Staged(generatePublishDataNotes(
                    Staged(installRuntime(cx), "installPublishRuntime"), ds, now),
                  "generatePublishDataNotes"),
           ds, IncludePinLinkedNotesInAssets),
         "generateAssetsManifest")

timelineStages(cx, ds, now) ==
  Staged(generateTimelineAssetsManifest(
           Staged(generateTimelineDataNotes(cx, ds, now), "generateTimelineDataNotes"), ds),
         "generateTimelineAssetsManifest")

\* prepareAll with the manifest generated before the data notes
prepareAll_manifestFirst(cx, ds, now) ==
  NoticeIfOk(
    Staged(generatePublishDataNotes(
             Staged(generateAssetsManifest(
                      Staged(installRuntime(cx), "installPublishRuntime"),
                      ds, IncludePinLinkedNotesInAssets),
                    "generateAssetsManifest"),
             ds, now),
           "generatePublishDataNotes"),
    "done", <<>>)

prepareAll(cx, ds, now) == NoticeIfOk(mapStages(cx, ds, now), "done", <<>>)

prepareTimelineOnly(cx, ds, now) ==
  NoticeIfOk(timelineStages(Staged(installRuntime(cx), "installPublishRuntime"), ds, now),
             "Timeline done", <<>>)

prepareMapsAndTimeline(cx, ds, now) ==
  NoticeIfOk(timelineStages(mapStages(cx, ds, now), ds, now), "maps + timeline done", <<>>)

\* What a command leaves behind in the vault
VaultOf(cx) ==
  [files |-> cx.files, folders |-> cx.folders, js |-> cx.js, css |-> cx.css, zm |-> cx.zm]

\* The record of the latest command
RunRecord(cmd, cx, now, pre, preDocs, before) ==
  [cmd |-> cmd, fault |-> (IF cx.hit THEN cx.fault ELSE NoFault), now |-> now, completed |-> ~cx.thrown,
   keep |-> cx.keep, tkeep |-> cx.tkeep, updated |-> cx.updated, skipped |-> cx.skipped,
   items |-> cx.items, titems |-> cx.titems, notices |-> cx.notices, log |-> cx.log,
   assets |-> cx.assets, stages |-> cx.stages, deep |-> cx.deep, pre |-> pre,
   preDocs |-> preDocs,
   prev |-> [cmd |-> before.cmd, completed |-> before.completed, fault |-> before.fault,
             keep |-> before.keep, tkeep |-> before.tkeep]]

EmptyVault ==
  [files |-> EmptyMap, folders |-> {}, js |-> NoFile, css |-> NoFile, zm |-> "absent"]

\* Before any command has run
NoRun ==
  [cmd |-> "none", fault |-> NoFault, now |-> 0, completed |-> FALSE,
   keep |-> {}, tkeep |-> {}, updated |-> 0, skipped |-> 0, items |-> <<>>,
   titems |-> <<>>, notices |-> <<>>, log |-> <<>>, assets |-> <<>>, stages |-> <<>>,
   deep |-> FALSE, pre |-> EmptyVault, preDocs |-> <<>>,
   prev |-> [cmd |-> "none", completed |-> FALSE, fault |-> NoFault, keep |-> {},
             tkeep |-> {}]]

\* The user changed the vault: the latest command is no longer the latest event
EditRecord(before) ==
  [NoRun EXCEPT !.cmd = "edit",
                !.prev = [cmd |-> before.cmd, completed |-> before.completed,
                          fault |-> before.fault, keep |-> before.keep,
                          tkeep |-> before.tkeep]]

---------------------------------------------------------------------------
(* Idle values of each group of variables *)

\* No command is in flight
NoPasses == [start |-> EmptyVault, of |-> <<>>]

OverlapIdle == passes = NoPasses

HashIdle ==
  /\ hA = <<>> /\ hB = <<>>
  /\ hIdA = NoVal /\ hIdB = NoVal
  /\ hNoteA = NoVal /\ hNoteB = NoVal

UpsertIdle ==
  /\ uFile = [js |-> NoFile, css |-> NoFile]
  /\ uBlock = <<>>
  /\ uHist = <<>>
  /\ uWrites = <<>>

PipeIdle ==
  /\ docs = <<>>
  /\ vault = EmptyVault
  /\ clock = 0
  /\ steps = 0
  /\ faults = 0
  /\ last = NoRun

---------------------------------------------------------------------------
(* SpecHash: the id hasher applied to two raw keys *)

KeyChars == {"a", "/", "\\"}

KeyBodies == SeqsUpTo(KeyChars, MaxKeyLen)

\* The ways a user writes the same path: padded, ./-relative, rooted, wiki-linked
Decorate(b) ==
  { b,
    <<" ">> \o b,
    b \o <<" ">>,
    <<".", "/">> \o b,
    <<"/">> \o b,
    <<"/", " ">> \o b,
    <<"[", "[">> \o b \o <<"]", "]">> }

Keys == UNION {Decorate(b) : b \in KeyBodies}

InitHash ==
  /\ hA \in Keys
  /\ hB \in Keys
  /\ hIdA = NoVal /\ hIdB = NoVal
  /\ hNoteA = NoVal /\ hNoteB = NoVal
  /\ UpsertIdle
  /\ PipeIdle
  /\ OverlapIdle

CallHashPathToId ==
  /\ hIdA = NoVal
  /\ hIdA' = hashPathToId(hA)
  /\ hIdB' = hashPathToId(hB)
  /\ UNCHANGED <<hA, hB, hNoteA, hNoteB, upsertVars, pipeVars, overlapVars>>

CallMarkerNotePath ==
  /\ hIdA # NoVal
  /\ hNoteA = NoVal
  /\ hNoteA' = markerNotePathForMarkersPath(hA)
  /\ hNoteB' = markerNotePathForMarkersPath(hB)
  /\ UNCHANGED <<hA, hB, hIdA, hIdB, upsertVars, pipeVars, overlapVars>>

NextHash == CallHashPathToId \/ CallMarkerNotePath

SpecHash == InitHash /\ [][NextHash]_vars

---------------------------------------------------------------------------
(* SpecUpsert: installPublishRuntime run repeatedly on publish.js / publish.css *)

Segments == {ZM_BEGIN_JS, ZM_END_JS, <<"x">>, <<"\n">>, <<" ">>}

SrcTexts == {Concat(segs) : segs \in SeqsUpTo(Segments, MaxSegs)}

CssTexts == {<<"x">>, ZM_BEGIN_CSS \o <<"o">> \o ZM_END_CSS \o <<"\n", "x">>}

InitUpsert ==
  /\ \E js \in {File(t) : t \in SrcTexts} \cup {NoFile},
        css \in {File(t) : t \in CssTexts} \cup {NoFile} :
       /\ uFile = [js |-> js, css |-> css]
       /\ uHist = <<[js |-> js, css |-> css]>>
  /\ uBlock \in {buildPublishJsBlock(TRUE), buildPublishJsBlock(FALSE)}
  /\ uWrites = <<>>
  /\ HashIdle
  /\ PipeIdle
  /\ OverlapIdle

InstallPublishRuntime ==
  /\ Len(uWrites) < MaxInstalls
  /\ LET r == installPublishRuntime(uFile, uBlock)
     IN  /\ uFile' = r.files
         /\ uHist' = Append(uHist, r.files)
         /\ uWrites' = Append(uWrites, r.writes)
  /\ UNCHANGED <<uBlock, hashVars, pipeVars, overlapVars>>

NextUpsert == InstallPublishRuntime

SpecUpsert == InitUpsert /\ [][NextUpsert]_vars

---------------------------------------------------------------------------
(* Spec: the two data-note passes run on a vault the user keeps editing *)

\* A fenced zoommap block that names its image and its marker document
MapBlock(image, markers) ==
  [parses |-> TRUE, image |-> image, markers |-> markers, imageBases |-> <<>>,
   imageOverlays |-> <<>>, viewportFrame |-> <<>>]

NoSummary == [present |-> FALSE, form |-> "string", text |-> <<>>, num |-> 0]

\* A note of the user: its zoommap blocks and its timeline frontmatter
SourceNote(path, publish, blocks, fcDate, timelines) ==
  [path |-> path, publish |-> publish, blocks |-> blocks, hasFm |-> TRUE,
   fcDate |-> fcDate, fcEnd |-> NoValue, timelines |-> timelines, title |-> NoValue,
   summary |-> NoSummary, image |-> NoValue, paras |-> <<>>, embeds |-> <<>>,
   links |-> <<>>]

MarkerDoc(bases, overlays, markers, drawings) ==
  [bases |-> bases, overlays |-> overlays, markers |-> markers, drawings |-> drawings]

Sticker(path) ==
  [type |-> "sticker", stickerPath |-> Str(path), link |-> NotStr, swapLinks |-> <<>>,
   swapKey |-> NotStr]

Drawing(path) == [bakedPath |-> Str(path)]

LibraryDoc == [icons |-> <<>>, baseCollections |-> <<>>]

MapImage == <<"m", ".", "p", "n", "g">>

\* Images the marker documents refer to: a sticker, a baked drawing, a sticker
\* kept in the configuration folder and one kept in a folder next to it
StickerPng == <<"s", ".", "p", "n", "g">>
BakedSvg   == <<"d", ".", "s", "v", "g">>
ConfigPng  == ConfigDir \o <<"/", "c", ".", "p", "n", "g">>
BesidePng  == ConfigDir \o <<"2", "/", "b", ".", "p", "n", "g">>

\* A map block that also lists the sticker among its image bases
MapBlockWithBase(image, markers, base) ==
  [MapBlock(image, markers) EXCEPT !.imageBases = <<[form |-> "string", path |-> base]>>]

DocA == MarkerDoc(<<>>, <<>>, <<Sticker(StickerPng), Sticker(StickerPng)>>, <<Drawing(BakedSvg)>>)
DocB == MarkerDoc(<<>>, <<>>, <<Sticker(StickerPng), Sticker(ConfigPng), Sticker(BesidePng)>>,
                  <<Drawing(BakedSvg)>>)

PathA == <<"a">>
PathB == <<"b">>
PathLiquid == <<"l", "i", "q", "u", "i", "d">>
PathCostarring == <<"c", "o", "s", "t", "a", "r", "r", "i", "n", "g">>

Note1 == <<"n", "1", ".", "m", "d">>
Note2 == <<"n", "2", ".", "m", "d">>

\* A note the user keeps next to the generated marker notes, and one in a sub-folder
HandMarkerNote == MarkersFolder \o <<"/", "m", "-", "n", "o", "t", "e", "s">> \o DotMd
HandIndexNote  == MarkersFolder \o <<"/", "i", "n", "d", "e", "x">> \o DotMd
HandTimelineNote == TimelinesFolder \o <<"/", "o", "l", "d", "/", "t", "-", "p", "l", "a", "n">> \o DotMd

\* The marker note an earlier pass generated for a map that is gone
StaleMarkerNote == MarkersFolder \o <<"/", "m", "-", "1", "o", "l", "d">> \o DotMd

StaleTimelineNote == TimelinesFolder \o <<"/", "t", "-", "1", "o", "l", "d">> \o DotMd

Gone == <<"g", "o", "n", "e">>

StaleMarker ==
  Note("markers", [zoommapMarkersPath |-> Gone, sourceFile |-> Gone, zoommapSourceMtime |-> 1],
       0, [bases |-> <<>>, overlays |-> <<>>, markers |-> <<>>, drawings |-> <<>>])

StaleTimeline ==
  Note("timeline", [timelineName |-> Gone,
                    timelineKey |-> TimelinesFolder \o <<"/", "t", "-">> \o hashKeyToId(Gone)],
       0, [timelineName |-> Gone, months |-> defaultMonths, entries |-> <<>>])

\* Merge of two path -> content maps with disjoint domains
Merge(f, g) == [q \in DOMAIN f \cup DOMAIN g |-> IF q \in DOMAIN f THEN f[q] ELSE g[q]]

One(path, content) == [q \in {path} |-> content]

\* The assets manifest an earlier run wrote for a vault without maps
StaleManifest == ManifestNote("maps", <<libraryNotePath, AssetsNotePath>>)

Extras ==
  Merge(Merge(One(HandMarkerNote, HandNote), One(HandIndexNote, HandNote)),
        Merge(One(HandTimelineNote, HandNote),
              Merge(One(StaleMarkerNote, StaleMarker),
                    Merge(One(StaleTimelineNote, StaleTimeline),
                          One(normalizePath(AssetsNotePath), StaleManifest)))))

ExtraFolders == {dirName(PublishRoot), PublishRoot, MarkersFolder, dirName(TimelineRoot),
                 TimelineRoot, TimelinesFolder, TimelinesFolder \o <<"/", "o", "l", "d">>}

Date1 == StringValue(<<"1", "1", "6", "5", "-", "0", "3", "-", "0", "1">>)
Date2 == RecordValue(1165, 2, 9)

\* The vaults a behaviour of Spec starts from
Layouts ==
  { \* two maps, two timelines, hand-written notes and stale artifacts
    [docs  |-> << SourceNote(Note1, TRUE, <<MapBlockWithBase(MapImage, PathA, StickerPng),
                                            MapBlock(MapImage, PathB)>>,
                             Date1, ArrayValue(<< <<"A">>, <<"b">> >>)),
                  SourceNote(Note2, TRUE, <<>>, Date2, StringValue(<<"b">>)) >>,
     vault |-> [files |-> Merge(Extras,
                            Merge(One(PathA, JsonFile(1, TRUE, DocA)),
                                  One(PathB, JsonFile(1, TRUE, DocB)))),
                folders |-> ExtraFolders, js |-> NoFile, css |-> NoFile, zm |-> "saves"]],
    \* a bare vault: one map whose marker document is broken, one that is fine
    [docs  |-> << SourceNote(Note1, TRUE, <<MapBlock(MapImage, PathA), MapBlock(MapImage, PathB)>>,
                             NoValue, NoValue),
                  SourceNote(Note2, FALSE, <<MapBlock(MapImage, PathA)>>, Date1,
                             StringValue(<<"A">>)) >>,
     vault |-> [files |-> Merge(One(PathA, JsonFile(1, FALSE, MarkerDoc(<<>>, <<>>, <<>>, <<>>))),
                                One(PathB, JsonFile(2, TRUE, MarkerDoc(<<>>, <<>>, <<>>, <<>>)))),
                folders |-> {}, js |-> NoFile, css |-> NoFile, zm |-> "absent"]],
    \* two marker paths with one id, and two spellings of one timeline name
    [docs  |-> << SourceNote(Note1, TRUE, <<MapBlock(MapImage, PathLiquid),
                                            MapBlock(MapImage, PathCostarring)>>,
                             Date1, StringValue(<<"A", ";", " ", "a">>)) >>,
     vault |-> [files |-> Merge(One(PathLiquid, JsonFile(1, TRUE, MarkerDoc(<<>>, <<>>, <<>>, <<>>))),
                                One(PathCostarring, JsonFile(2, TRUE, MarkerDoc(<<>>, <<>>, <<>>, <<>>)))),
                folders |-> {}, js |-> NoFile, css |-> NoFile, zm |-> "fails"]] }

InitPipe ==
  /\ \E l \in Layouts : docs = l.docs /\ vault = l.vault
  /\ clock = 0
  /\ steps = 0
  /\ faults = 0
  /\ last = NoRun
  /\ HashIdle
  /\ UpsertIdle
  /\ OverlapIdle

Fault(op, path) == [op |-> op, path |-> path]

\* What the store may refuse during one command
FaultChoices ==
  { NoFault,
    Fault("create", markerNotePathForMarkersPath(PathA)),
    Fault("modify", markerNotePathForMarkersPath(PathA)),
    Fault("read", markerNotePathForMarkersPath(PathA)),
    Fault("create", timelineDataNotePathForTimelineName(<<"A">>)),
    Fault("modify", timelineDataNotePathForTimelineName(<<"A">>)),
    Fault("trash", StaleMarkerNote),
    Fault("createFolder", MarkersFolder),
    Fault("createFolder", TimelinesFolder) }

\* A command ran to its end, or to the exception that ended it, one tick later
Ran(cmd, cx) ==
  /\ vault' = VaultOf(cx)
  /\ last' = RunRecord(cmd, cx, clock + 1, vault, docs, last)
  /\ clock' = clock + 1
  /\ steps' = steps + 1
  /\ faults' = IF cx.hit THEN faults + 1 ELSE faults
  /\ UNCHANGED <<docs, hashVars, upsertVars, overlapVars>>

\* The store fails during at most MaxFaults commands
MayFail(fault) == fault = NoFault \/ faults < MaxFaults

\* Command "Maps: generate publish data notes (library + markers)"
GeneratePublishDataNotes ==
  /\ steps < MaxSteps
  /\ \E fault \in FaultChoices :
       /\ MayFail(fault)
       /\ Ran("generatePublishDataNotes",
              generatePublishDataNotes(NewContext(vault, docs, fault), docs, clock + 1))

\* Command "Timeline: generate publish data notes"
GenerateTimelineDataNotes ==
  /\ steps < MaxSteps
  /\ \E fault \in FaultChoices :
       /\ MayFail(fault)
       /\ Ran("generateTimelineDataNotes",
              generateTimelineDataNotes(NewContext(vault, docs, fault), docs, clock + 1))

SourcePaths == {q \in DOMAIN vault.files : vault.files[q].kind = "json" /\ q # LibJsonPath}

\* The user edits before a command; every edit and every command is one tick
MayEdit == steps < MaxSteps /\ clock - steps < MaxEdits

SetFile(q, content) ==
  /\ vault' = [vault EXCEPT !.files = [r \in DOMAIN @ |-> IF r = q THEN content ELSE @[r]]]
  /\ clock' = clock + 1
  /\ last' = EditRecord(last)
  /\ UNCHANGED <<docs, steps, faults, hashVars, upsertVars, overlapVars>>

\* The user saves a marker document again: only its mtime changes
TouchSource ==
  /\ MayEdit
  /\ \E q \in SourcePaths : SetFile(q, [vault.files[q] EXCEPT !.mtime = clock + 1])

\* The user deletes a marker document
DeleteSource ==
  /\ MayEdit
  /\ \E q \in SourcePaths :
       vault' = [vault EXCEPT !.files = [r \in DOMAIN @ \ {q} |-> @[r]]]
  /\ clock' = clock + 1
  /\ last' = EditRecord(last)
  /\ UNCHANGED <<docs, steps, faults, hashVars, upsertVars, overlapVars>>

\* The user removes the first zoommap block of a note
RemoveBlock ==
  /\ MayEdit
  /\ \E i \in 1..Len(docs) :
       /\ docs[i].blocks # <<>>
       /\ docs' = [docs EXCEPT ![i].blocks = Tail(@)]
  /\ clock' = clock + 1
  /\ last' = EditRecord(last)
  /\ UNCHANGED <<vault, steps, faults, hashVars, upsertVars, overlapVars>>

\* The user takes a note off its timelines
UntagNote ==
  /\ MayEdit
  /\ \E i \in 1..Len(docs) :
       /\ Truthy(docs[i].timelines)
       /\ docs' = [docs EXCEPT ![i].timelines = NoValue]
  /\ clock' = clock + 1
  /\ last' = EditRecord(last)
  /\ UNCHANGED <<vault, steps, faults, hashVars, upsertVars, overlapVars>>

Next ==
  \/ GeneratePublishDataNotes
  \/ GenerateTimelineDataNotes
  \/ TouchSource
  \/ DeleteSource
  \/ RemoveBlock
  \/ UntagNote

Spec == InitPipe /\ [][Next]_vars

---------------------------------------------------------------------------
(* SpecPrepare: the eight commands of the plugin, run one after another *)

\* What the store may refuse during a prepare command
PrepareFaults ==
  { NoFault,
    Fault("adapter.write", JsPath),
    Fault("createFolder", MarkersFolder),
    Fault("create", normalizePath(AssetsNotePath)) }

\* Command "Install/update publish.js + publish.css"
InstallRuntime ==
  /\ steps < MaxSteps
  /\ \E fault \in PrepareFaults :
       /\ MayFail(fault)
       /\ Ran("installPublishRuntime", installRuntime(NewContext(vault, docs, fault)))

\* Command "Maps: generate publish assets manifest"
GenerateAssetsManifest ==
  /\ steps < MaxSteps
  /\ \E fault \in PrepareFaults :
       /\ MayFail(fault)
       /\ Ran("generateAssetsManifest",
              generateAssetsManifest(NewContext(vault, docs, fault), docs,
                                     IncludePinLinkedNotesInAssets))

\* Command "Timeline: generate publish assets manifest"
GenerateTimelineAssetsManifest ==
  /\ steps < MaxSteps
  /\ \E fault \in PrepareFaults :
       /\ MayFail(fault)
       /\ Ran("generateTimelineAssetsManifest",
              generateTimelineAssetsManifest(NewContext(vault, docs, fault), docs))

\* Command "Maps: prepare all"
PrepareAll ==
  /\ steps < MaxSteps
  /\ \E fault \in PrepareFaults :
       /\ MayFail(fault)
       /\ Ran("prepareAll", prepareAll(NewContext(vault, docs, fault), docs, clock + 1))

\* Command "Timeline: prepare"
PrepareTimelineOnly ==
  /\ steps < MaxSteps
  /\ \E fault \in PrepareFaults :
       /\ MayFail(fault)
       /\ Ran("prepareTimelineOnly",
              prepareTimelineOnly(NewContext(vault, docs, fault), docs, clock + 1))

\* Command "Prepare maps + timeline"
PrepareMapsAndTimeline ==
  /\ steps < MaxSteps
  /\ \E fault \in PrepareFaults :
       /\ MayFail(fault)
       /\ Ran("prepareMapsAndTimeline",
              prepareMapsAndTimeline(NewContext(vault, docs, fault), docs, clock + 1))

NextPrepare ==
  \/ InstallRuntime
  \/ GeneratePublishDataNotes
  \/ GenerateAssetsManifest
  \/ PrepareAll
  \/ GenerateTimelineDataNotes
  \/ GenerateTimelineAssetsManifest
  \/ PrepareTimelineOnly
  \/ PrepareMapsAndTimeline

SpecPrepare == InitPipe /\ [][NextPrepare]_vars



---------------------------------------------------------------------------
(* SpecLinks: generateAssetsManifest on a vault whose markers link to notes *)

Md(name) == <<name>> \o DotMd

\* A note nothing scans: it is not published and has no date
PlainNote(name, blocks, links) ==
  [SourceNote(Md(name), FALSE, blocks, NoValue, NoValue) EXCEPT !.links = links]

Pin(type, link, swapLinks, swapKey) ==
  [type |-> type, stickerPath |-> NotStr, link |-> link, swapLinks |-> swapLinks,
   swapKey |-> swapKey]

Icon(key, defaultLink) ==
  [key |-> Str(key), defaultLink |-> Str(defaultLink), pathOrDataUrl |-> NotStr]

Frame(iconKey, link) == [iconKey |-> Str(iconKey), link |-> Str(link)]

SwapPin(id, frames) == [id |-> Str(id), frames |-> frames]

Key1 == <<"k", "1">>
Key2 == <<"k", "2">>

\* Preset k1 with frame link v and frame icon i1 (default link z); preset k2
\* with frame link u and frame icon i2 (default link w); icon i3 in no preset
LinkLibrary ==
  [icons |-> <<Icon(<<"i", "1">>, <<"[", "[", "z", "]", "]">>), Icon(<<"i", "2">>, <<"w">>),
               Icon(<<"i", "3">>, <<"q">>)>>,
   baseCollections |->
     <<[stickers |-> <<>>,
        swapPins |-> <<SwapPin(Key1, <<Frame(<<"i", "1">>, <<"v", "|", "V">>),
                                       Frame(<<" ", "i", "1">>, <<"v">>)>>),
                       SwapPin(Key2, <<Frame(<<"i", "2">>, <<"u">>)>>)>>]>>]

\* The marker document of the scanned map: a marker linking to note x and a
\* second marker linking to note y by its swap links, with the given key
LinkMarkers(type, swapKey) ==
  MarkerDoc(<<>>, <<>>,
            <<Pin("pin", Str(<<"[", "[", "x", "#", "h", "]", "]">>), <<>>, NotStr),
              Pin(type, NotStr, <<Str(<<"y">>), NotStr>>, swapKey)>>,
            <<>>)

\* The marker document of a map block inside note v
InnerMarkers ==
  MarkerDoc(<<>>, <<>>, <<Sticker(StickerPng), Pin("pin", Str(<<"r">>), <<>>, NotStr)>>, <<>>)

PathInner == <<"c">>

\* The notes: n1 is published and holds the map; v holds a map block and a
\* link to note t
LinkDocs ==
  << SourceNote(Note1, TRUE, <<MapBlock(MapImage, PathA)>>, NoValue, NoValue),
     PlainNote("x", <<>>, <<>>), PlainNote("y", <<>>, <<>>), PlainNote("z", <<>>, <<>>),
     PlainNote("v", <<MapBlock(MapImage, PathInner)>>, <<<<"t">>>>),
     PlainNote("u", <<>>, <<>>), PlainNote("w", <<>>, <<>>), PlainNote("q", <<>>, <<>>),
     PlainNote("t", <<>>, <<>>), PlainNote("r", <<>>, <<>>) >>

SwapKeys == {Str(Key1), Str(<<" ">> \o Key1), Str(Key2), Str(<<"k", "9">>), Str(<<" ">>), NotStr}

Libraries ==
  { One(LibJsonPath, JsonFile(1, TRUE, LinkLibrary)),
    One(LibJsonPath, JsonFile(1, FALSE, LinkLibrary)),
    EmptyMap }

\* The library artifact of an earlier export, older than every library document
OldLibraryNote ==
  Note("library", [sourceFile |-> LibJsonPath, zoommapSourceMtime |-> 0], 0, SavedLibrary)

InitLinks ==
  /\ docs = LinkDocs
  /\ \E type \in {"swap", "pin"}, key \in SwapKeys, lib \in Libraries :
       vault = [EmptyVault EXCEPT
                  !.files = Merge(Merge(lib, One(libraryNotePath, OldLibraryNote)),
                                  Merge(One(PathA, JsonFile(1, TRUE, LinkMarkers(type, key))),
                                        One(PathInner, JsonFile(1, TRUE, InnerMarkers))))]
  /\ clock = 0
  /\ steps = 0
  /\ faults = 0
  /\ last = NoRun
  /\ HashIdle
  /\ UpsertIdle
  /\ OverlapIdle

\* Command "Maps: generate publish assets manifest" with the setting
\* includePinLinkedNotesInAssets switched on
GenerateAssetsManifestDeep ==
  /\ steps < MaxSteps
  /\ \E fault \in PrepareFaults :
       /\ MayFail(fault)
       /\ Ran("generateAssetsManifest",
              generateAssetsManifest(WithSetting(NewContext(vault, docs, fault), TRUE),
                                     docs, TRUE))

NextLinks ==
  \/ GenerateAssetsManifest
  \/ GenerateAssetsManifestDeep
  \/ GeneratePublishDataNotes
  \/ GenerateTimelineDataNotes

SpecLinks == InitLinks /\ [][NextLinks]_vars

---------------------------------------------------------------------------
(* SpecEntries: generateTimelineDataNotes on a vault with one dated note *)

Rep(n, c) == [i \in 1..n |-> c]

SummaryValue(form, text, num) == [present |-> TRUE, form |-> form, text |-> text, num |-> num]

\* The summary key: absent, "", a text, null, a number, an object
SummaryValues ==
  { NoSummary,
    SummaryValue("string", <<>>, 0),
    SummaryValue("string", <<"s", " ", " ", "*">>, 0),
    SummaryValue("null", <<>>, 0),
    SummaryValue("number", <<>>, 7),
    SummaryValue("object", <<"{", "}">>, 0) }

\* The paragraphs of the body, around the limit of SummaryLimit characters
Bodies ==
  { <<>>,
    << <<"-", " ", "x">>, <<"1", ".", " ", "x">>, <<">", " ", "q">> >>,
    << <<"#", " ", "h">>, <<"*", "_">>, <<" ", "*", "a", "*", " ", " ", "b", "\n", "c", " ">>,
       <<"z">> >>,
    << Rep(SummaryLimit - 1, "x") >>,
    << Rep(SummaryLimit, "x") >>,
    << Rep(SummaryLimit + 1, "x") >>,
    << <<"*">> \o Rep(SummaryLimit, "x") >>,
    << Rep(250, "x") \o <<" ", " ">> \o Rep(SummaryLimit - 250, "y") >> }

DatedNote(summary, paras) ==
  [SourceNote(Note1, TRUE, <<>>, Date1, StringValue(<<"A">>))
     EXCEPT !.summary = summary, !.paras = paras]

Day1   == StringValue(<<"1", "1", "6", "5", "-", "0", "3", "-", "0", "1">>)
Day3   == StringValue(<<"1", "1", "6", "5", "-", "0", "3", "-", "0", "3">>)
April2 == StringValue(<<"1", "1", "6", "5", "-", "0", "4", "-", "0", "2">>)
NextYear == StringValue(<<"1", "1", "6", "6", "-", "0", "3", "-", "0", "1">>)
Month13  == StringValue(<<"1", "1", "6", "5", "-", "1", "3", "-", "0", "1">>)

\* The start dates and the end dates of an entry; month 13 is in no table
Starts == {Day1, Day3, Month13, RecordValue(1165, 2, 9)}
Ends   == {NoValue, Day1, Day3, April2, NextYear, Month13, StringValue(<<"x">>)}

\* Timeline "A" has the default months, timeline "b" the two of MonthOverrides
RangeNote(start, end, name) ==
  [SourceNote(Note1, TRUE, <<>>, start, StringValue(name)) EXCEPT !.fcEnd = end]

\* One note declared under both timelines, in either order
BothNames == {<<"A", ",", "b">>, <<"b", ";", " ", "A">>}

\* Two notes of timeline "A" and their start dates: strings with two-digit
\* months and days, records with a day or a month of three digits
Day99 == StringValue(<<"1", "1", "6", "5", "-", "0", "2", "-", "9", "9">>)

PairStarts ==
  {Day1, Day99, RecordValue(1165, 2, 9), RecordValue(1165, 2, 150), RecordValue(1164, 120, 1)}

StartNote(path, start) == SourceNote(path, TRUE, <<>>, start, StringValue(<<"A">>))

InitEntries ==
  /\ \/ \E s \in SummaryValues, b \in Bodies : docs = <<DatedNote(s, b)>>
     \/ \E start \in Starts, end \in Ends, name \in {<<"A">>, <<"b">>} \cup BothNames :
          docs = <<RangeNote(start, end, name)>>
     \/ \E s1 \in PairStarts, s2 \in PairStarts :
          docs = <<StartNote(Note1, s1), StartNote(Note2, s2)>>
  /\ vault = EmptyVault
  /\ clock = 0
  /\ steps = 0
  /\ faults = 0
  /\ last = NoRun
  /\ HashIdle
  /\ UpsertIdle
  /\ OverlapIdle

NextEntries == GenerateTimelineDataNotes

SpecEntries == InitEntries /\ [][NextEntries]_vars

---------------------------------------------------------------------------
(* SpecOverlap: two manifest commands invoked without waiting for one
   another (callback: () => void this.generateAssetsManifest()).  A command
   runs from one await of a store operation to the next in one step; the
   operation it awaits takes effect when it completes. *)

PassIds == {1, 2}

ManifestCommands == {"generateAssetsManifest", "generateTimelineAssetsManifest"}

ManifestPathOf(cmd) ==
  IF cmd = "generateAssetsManifest" THEN normalizePath(AssetsNotePath)
  ELSE TimelineAssetsNotePath

\* lines.join("\n") of the command, from the sources as the scan found them
ManifestTextOf(cmd, v, ds) ==
  IF cmd = "generateAssetsManifest"
  THEN ManifestNote("maps",
         mapAssetList(collectMapAssets(NewContext(v, ds, NoFault), scanDocs(ds, ScanMode),
                                       IncludePinLinkedNotesInAssets)))
  ELSE ManifestNote("timeline",
         timelineAssetList(timelineAssetsOf(scanTimelineEntries(NewContext(v, ds, NoFault), ds))))

\* A command in flight: pc is "idle" before the command is invoked, then the
\* store operation it awaits ("scanning", "mkdir", "reading", "modifying",
\* "creating"), then "done" or "failed"; existed tells whether a file was at
\* the path when vault.create was called
Pass(cmd) == [cmd |-> cmd, pc |-> "idle", text |-> NoFile, existed |-> FALSE]

InitOverlap ==
  /\ \E l \in Layouts : docs = l.docs /\ vault = l.vault
  /\ \E c1 \in ManifestCommands, c2 \in ManifestCommands :
       passes = [start |-> vault, of |-> <<Pass(c1), Pass(c2)>>]
  /\ clock = 0
  /\ steps = 0
  /\ faults = 0
  /\ last = NoRun
  /\ HashIdle
  /\ UpsertIdle

Suspended(p, pc) == passes.of[p].pc = pc

Becomes(p, rec) ==
  passes' = [passes EXCEPT !.of = [q \in PassIds |-> IF q = p THEN rec ELSE @[q]]]

\* writeOrUpdateMarkdown up to its first await: vault.read of the file
\* getAbstractFileByPath found, or vault.create
AtWrite(rec, v) ==
  IF ManifestPathOf(rec.cmd) \in DOMAIN v.files
  THEN [rec EXCEPT !.pc = "reading"]
  ELSE [rec EXCEPT !.pc = "creating", !.existed = ManifestPathOf(rec.cmd) \in DOMAIN v.files]

\* ensureFolderFor up to vault.createFolder, or on to writeOrUpdateMarkdown
AtEnsure(rec, v) ==
  LET dir == dirName(normalizePath(ManifestPathOf(rec.cmd)))
  IN  IF dir # <<>> /\ dir \notin v.folders /\ dir \notin DOMAIN v.files
      THEN [rec EXCEPT !.pc = "mkdir"]
      ELSE AtWrite(rec, v)

\* The command is invoked and awaits the reads of its scan
StartPass(p) ==
  /\ Suspended(p, "idle")
  /\ Becomes(p, [passes.of[p] EXCEPT !.pc = "scanning"])
  /\ UNCHANGED <<pipeVars, hashVars, upsertVars>>

\* The scan returned: the text is built, then ensureFolderFor runs
ScanDone(p) ==
  /\ Suspended(p, "scanning")
  /\ Becomes(p, AtEnsure([passes.of[p] EXCEPT
                            !.text = ManifestTextOf(passes.of[p].cmd, vault, docs)], vault))
  /\ UNCHANGED <<pipeVars, hashVars, upsertVars>>

\* vault.createFolder completed; on a folder that exists by now the store
\* either rejects the call or leaves the folder as it is
MkdirDone(p) ==
  LET dir == dirName(normalizePath(ManifestPathOf(passes.of[p].cmd)))
  IN  /\ Suspended(p, "mkdir")
      /\ \/ /\ dir \in vault.folders
            /\ Becomes(p, [passes.of[p] EXCEPT !.pc = "failed"])
            /\ UNCHANGED vault
         \/ /\ vault' = [vault EXCEPT !.folders = @ \cup {dir}]
            /\ Becomes(p, AtWrite(passes.of[p], vault'))
      /\ UNCHANGED <<docs, clock, steps, faults, last, hashVars, upsertVars>>

\* vault.read completed: if (cur === content) return, else vault.modify
ReadDone(p) ==
  /\ Suspended(p, "reading")
  /\ Becomes(p, [passes.of[p] EXCEPT
                   !.pc = IF SameText(vault.files[ManifestPathOf(passes.of[p].cmd)],
                                      passes.of[p].text)
                          THEN "done" ELSE "modifying"])
  /\ UNCHANGED <<pipeVars, hashVars, upsertVars>>

\* vault.modify completed
ModifyDone(p) ==
  /\ Suspended(p, "modifying")
  /\ vault' = [vault EXCEPT !.files[ManifestPathOf(passes.of[p].cmd)] = passes.of[p].text]
  /\ Becomes(p, [passes.of[p] EXCEPT !.pc = "done"])
  /\ UNCHANGED <<docs, clock, steps, faults, last, hashVars, upsertVars>>

\* vault.create completed: it rejects when a file is at the path by now
CreateDone(p) ==
  LET path == ManifestPathOf(passes.of[p].cmd)
  IN  /\ Suspended(p, "creating")
      /\ IF path \in DOMAIN vault.files
         THEN /\ Becomes(p, [passes.of[p] EXCEPT !.pc = "failed"])
              /\ UNCHANGED vault
         ELSE /\ vault' = [vault EXCEPT !.files = Merge(One(path, passes.of[p].text), @)]
              /\ Becomes(p, [passes.of[p] EXCEPT !.pc = "done"])
      /\ UNCHANGED <<docs, clock, steps, faults, last, hashVars, upsertVars>>

NextOverlap ==
  \E p \in PassIds :
    \/ StartPass(p)
    \/ ScanDone(p)
    \/ MkdirDone(p)
    \/ ReadDone(p)
    \/ ModifyDone(p)
    \/ CreateDone(p)

SpecOverlap == InitOverlap /\ [][NextOverlap]_vars

---------------------------------------------------------------------------
(* Claims about the id hasher (SpecHash) *)

\* C6: two raw keys that normalize identically hash to the same id, and
\* markerNotePathForMarkersPath maps them to the same artifact path.
C6_StableIds ==
  (hIdA # NoVal /\ normalizeForHash(hA) = normalizeForHash(hB)) =>
    /\ hIdA = hIdB
    /\ (hNoteA # NoVal => hNoteA = hNoteB)

\* Two different spellings of one path have been hashed and mapped to a note path.
C6_Witness ==
  /\ hA # hB
  /\ normalizeForHash(hA) = normalizeForHash(hB)
  /\ normalizeForHash(hA) # <<>>
  /\ hIdA # NoVal /\ hIdA = hIdB
  /\ hNoteA # NoVal /\ hNoteA = hNoteB

---------------------------------------------------------------------------
(* Claims about the block upsert (SpecUpsert) *)

\* The text upsertRootFileBlock hands to upsertBlock for a root file
TextOf(file) == IF file.exists THEN file.text ELSE <<>>

\* The code's test for a marker pair: the first begin precedes the first end
HasPair(src, begin, end) == indexOf(src, begin) >= 0 /\ indexOf(src, end) > indexOf(src, begin)

BeforeOf(src, begin) == slice(src, 0, indexOf(src, begin))

AfterOf(src, end) == sliceFrom(src, indexOf(src, end) + Len(end))

OptNl == {<<>>, <<"\n">>}

\* Pair case: only the text from the begin marker through the end marker is replaced
ReplacedInPlace(src, res, begin, end, block) ==
  \E nl1 \in OptNl, nl2 \in OptNl :
    res = BeforeOf(src, begin) \o nl1 \o trimEnd(block) \o nl2
          \o trimEnd(AfterOf(src, end)) \o <<"\n">>

\* No-pair case as the spec words it: content, one blank line, the block
AppendedAfterBlankLine(src, res, block) ==
  res = trimEnd(src) \o <<"\n", "\n">> \o trimEnd(block) \o <<"\n">>

\* C7: a second installPublishRuntime with the same block leaves publish.js and
\* publish.css byte-identical and calls adapter.write on neither.
C7_UpsertIdempotent ==
  Len(uWrites) >= 2 => (uHist[3] = uHist[2] /\ uWrites[2] = 0)

UpsertFrame(src, res, begin, end, block) ==
  IF HasPair(src, begin, end)
  THEN ReplacedInPlace(src, res, begin, end, block)
  ELSE IF trimEnd(src) = <<>>
       THEN res = trimEnd(block) \o <<"\n">>
       ELSE AppendedAfterBlankLine(src, res, block)

---------------------------------------------------------------------------
(* Claims about the data-note passes (Spec) *)

IsMarkerRun   == last.cmd = "generatePublishDataNotes"
IsTimelineRun == last.cmd = "generateTimelineDataNotes"

\* The files of a folder that carry the name of a generated artifact
ArtifactNamed(files, folder, prefix) ==
  {p \in DOMAIN files : /\ isMarkdown(p)
                        /\ startsWith(p, folder \o <<"/">>)
                        /\ startsWith(fileName(p), prefix)}

WroteTo(log, path) ==
  \E i \in 1..Len(log) : log[i][1] \in {"create", "modify"} /\ log[i][2] = path

\* One map block whose marker document exists and parses
ItemRule(it) ==
  IF it.hadNote /\ it.prevMtime = it.sourceMtime
  THEN ~it.wrote /\ it.counted = "unchanged"
  ELSE it.wrote /\ it.counted = "updated" /\ it.stored = it.sourceMtime

CountOf(items, counted) == Cardinality({i \in 1..Len(items) : items[i].counted = counted})

\* The library document of a pass the store did not disturb: its rewrite is
\* reported by the notice "Generated"
LibraryRule ==
  (/\ LibJsonPath \in DOMAIN vault.files
   /\ vault.files[LibJsonPath].ok)
  => IF /\ libraryNotePath \in DOMAIN last.pre.files
        /\ fmSourceMtime(last.pre.files[libraryNotePath]) = vault.files[LibJsonPath].mtime
     THEN /\ ~WroteTo(last.log, libraryNotePath)
          /\ <<"Generated", libraryNotePath>> \notin {last.notices[i] : i \in 1..Len(last.notices)}
     ELSE /\ WroteTo(last.log, libraryNotePath)
          /\ fmSourceMtime(vault.files[libraryNotePath]) = vault.files[LibJsonPath].mtime
          /\ <<"Generated", libraryNotePath>> \in {last.notices[i] : i \in 1..Len(last.notices)}

\* Two passes in a row, both undisturbed, nothing edited in between
SecondOfTwo(cmd) ==
  /\ last.cmd = cmd /\ last.prev.cmd = cmd
  /\ last.completed /\ last.prev.completed
  /\ last.fault = NoFault /\ last.prev.fault = NoFault

\* C2: in generatePublishDataNotes and exportLibraryNote a source that exists
\* and parses is skipped and counted unchanged when the artifact at its path
\* records the source's current fingerprint, and is otherwise rewritten with
\* the current fingerprint and counted updated; a pass that follows a pass
\* with nothing changed in between rewrites nothing
C2_ChangeDetection ==
  IsMarkerRun =>
    /\ \A i \in 1..Len(last.items) : ItemRule(last.items[i])
    /\ last.updated = CountOf(last.items, "updated")
    /\ last.skipped = CountOf(last.items, "unchanged")
    /\ (last.completed /\ last.fault = NoFault) => LibraryRule
    /\ SecondOfTwo("generatePublishDataNotes") =>
         \A i \in 1..Len(last.log) : last.log[i][1] \notin {"create", "modify"}

HandAuthored(files) ==
  {p \in DOMAIN files : /\ files[p] = HandNote
                        /\ \/ startsWith(p, MarkersFolder \o <<"/">>)
                           \/ startsWith(p, TimelinesFolder \o <<"/">>)}

\* C4: a data-note pass leaves every hand-written note of the artifact
\* folders and of their sub-folders in place with its content
C4_HandAuthoredKept ==
  (IsMarkerRun \/ IsTimelineRun) =>
    \A p \in HandAuthored(last.pre.files) :
      p \in DOMAIN vault.files /\ vault.files[p] = last.pre.files[p]

\* A map block whose marker document is missing or is not valid JSON
BadBlock(files, b) ==
  /\ blockToMap(<<>>, b) # <<>>
  /\ ~(/\ normalizePath(blockToMap(<<>>, b)[1].markersPath) \in DOMAIN files
       /\ files[normalizePath(blockToMap(<<>>, b)[1].markersPath)].kind = "json"
       /\ files[normalizePath(blockToMap(<<>>, b)[1].markersPath)].ok)

\* The notes with their bad map blocks taken out
WithoutBadBlocks(ds, files) ==
  [i \in 1..Len(ds) |->
     [ds[i] EXCEPT !.blocks = LET Good(b) == ~BadBlock(files, b) IN SelectSeq(@, Good)]]

BadMaps(ds, files) ==
  {m \in {scanDocs(ds, ScanMode)[i] : i \in 1..Len(scanDocs(ds, ScanMode))} :
     ~(/\ normalizePath(m.markersPath) \in DOMAIN files
       /\ files[normalizePath(m.markersPath)].kind = "json"
       /\ files[normalizePath(m.markersPath)].ok)}

Reported(m) ==
  \E i \in 1..Len(last.notices) :
    /\ last.notices[i][1] \in {"missing marker file", "invalid JSON"}
    /\ last.notices[i][2] = m.markersPath

\* The latest pass did to the store, and counted, what cx did
SameOutcome(cx) ==
  /\ VaultOf(cx) = vault
  /\ cx.log = last.log
  /\ cx.items = last.items
  /\ cx.keep = last.keep
  /\ cx.updated = last.updated /\ cx.skipped = last.skipped
  /\ cx.thrown = ~last.completed

\* C9: generatePublishDataNotes reports and skips every map block whose
\* marker document is missing or is not valid JSON, and treats the other map
\* blocks of the pass exactly as it would had the bad blocks not been there
C9_BadSourcesSkipped ==
  IsMarkerRun =>
    /\ SameOutcome(generatePublishDataNotes(
         NewContext(last.pre, WithoutBadBlocks(last.preDocs, last.pre.files), last.fault),
         WithoutBadBlocks(last.preDocs, last.pre.files), last.now))
    /\ last.completed => \A m \in BadMaps(last.preDocs, last.pre.files) : Reported(m)

\* A pass over one bad block and one good block, whose artifact it wrote
C9_Witness ==
  /\ IsMarkerRun /\ last.completed
  /\ BadMaps(last.preDocs, last.pre.files) # {}
  /\ \E i \in 1..Len(last.items) : last.items[i].wrote

\* The marker documents of the scanned map blocks that exist and parse
GoodSources(ds, files) ==
  {normalizePath(m.markersPath) :
     m \in {scanDocs(ds, ScanMode)[i] : i \in 1..Len(scanDocs(ds, ScanMode))}
           \ BadMaps(ds, files)}

\* The timeline names the notes of the vault declare
TimelineNames(v, ds) ==
  {mapKeys(fanOut(scanTimelineEntries(NewContext(v, ds, NoFault), ds)), {})[i] :
     i \in 1..Len(mapKeys(fanOut(scanTimelineEntries(NewContext(v, ds, NoFault), ds)), {}))}

\* The store refused to read or write an artifact during the latest pass
ArtifactFault == last.fault.op \in {"create", "modify", "read"}

\* C10: when the store fails on the artifact of one map block (of one
\* timeline), the pass surfaces the failure, still brings the artifact of
\* every other map block (timeline) up to date and still collects orphans
C10_FailuresDoNotBlock ==
  /\ (IsMarkerRun /\ ArtifactFault) =>
       /\ ~last.completed
       /\ \A p \in GoodSources(last.preDocs, last.pre.files) :
            markerNotePathForMarkersPath(p) # last.fault.path =>
              /\ markerNotePathForMarkersPath(p) \in DOMAIN vault.files
              /\ fmSourceMtime(vault.files[markerNotePathForMarkersPath(p)])
                   = last.pre.files[p].mtime
       /\ ArtifactNamed(vault.files, MarkersFolder, <<"m", "-">>) \subseteq
            {markerNotePathForMarkersPath(p) : p \in GoodSources(last.preDocs, last.pre.files)}
  /\ (IsTimelineRun /\ ArtifactFault) =>
       /\ ~last.completed
       /\ \A n \in TimelineNames(last.pre, last.preDocs) :
            timelineDataNotePathForTimelineName(n) # last.fault.path =>
              /\ timelineDataNotePathForTimelineName(n) \in DOMAIN vault.files
              /\ vault.files[timelineDataNotePathForTimelineName(n)].at = last.now
       /\ ArtifactNamed(vault.files, TimelinesFolder, <<"t", "-">>) \subseteq
            {timelineDataNotePathForTimelineName(n) :
               n \in TimelineNames(last.pre, last.preDocs)}

---------------------------------------------------------------------------
(* Claims about the prepare commands (SpecPrepare) *)

\* C1: the second of two runs of prepareMapsAndTimeline with no change of
\* the sources in between writes nothing to the store (no create, modify,
\* adapter.write or trash) and has the keep-sets of the first run
C1_PipelineIdempotent ==
  SecondOfTwo("prepareMapsAndTimeline") =>
    /\ last.log = <<>>
    /\ last.keep = last.prev.keep
    /\ last.tkeep = last.prev.tkeep

\* The latest command wrote the assets manifest of the maps
WroteMapManifest ==
  /\ last.completed
  /\ last.cmd \in {"generateAssetsManifest", "prepareAll", "prepareMapsAndTimeline"}

\* The sticker images and baked drawings of one marker document
ImagesOf(data) ==
  {stickerPaths(data.markers)[i] : i \in 1..Len(stickerPaths(data.markers))}
  \cup {bakedPaths(data.drawings)[i] : i \in 1..Len(bakedPaths(data.drawings))}

\* Those of every scanned map block whose marker document exists and parses
MarkerImages(ds, files) == UNION {ImagesOf(files[p].val) : p \in GoodSources(ds, files)}

TimesListed(q) ==
  Cardinality({i \in 1..Len(vault.files[normalizePath(AssetsNotePath)].obj) :
                 vault.files[normalizePath(AssetsNotePath)].obj[i] = linkOf(q)})

\* C5: every sticker image and every baked drawing of the marker document
\* of a scanned map block is listed exactly once in the assets manifest
\* generateAssetsManifest writes, however often it is referred to
C5_ClosureComplete ==
  WroteMapManifest =>
    \A q \in MarkerImages(last.preDocs, last.pre.files) : TimesListed(q) = 1

---------------------------------------------------------------------------
(* Claims about failures of the collaborators (Spec) *)

\* The store refused to create the artifact folder of the latest pass
SetupFault == (IsMarkerRun \/ IsTimelineRun) /\ last.fault.op = "createFolder"

\* C11: when creating the artifact output folder fails at the start of a
\* data-note pass, the pass ends with the error, and it has written no file
\* and deleted no file: the files of the store are those before the pass
C11_SetupFailureAborts ==
  SetupFault =>
    /\ ~last.completed
    /\ vault.files = last.pre.files
    /\ \A i \in 1..Len(last.log) : last.log[i][1] = "createFolder"
    /\ last.items = <<>> /\ last.titems = <<>>

\* A pass that had artifacts to write met the failure
C11_Witness ==
  /\ SetupFault
  /\ \/ IsMarkerRun /\ GoodSources(last.preDocs, last.pre.files) # {}
     \/ IsTimelineRun /\ TimelineNames(last.pre, last.preDocs) # {}
                      /\ ArtifactNamed(vault.files, MarkersFolder, <<"m", "-">>) # {}

\* The library document is missing and the companion plugin cannot supply it
NoProvider ==
  /\ IsMarkerRun /\ last.fault = NoFault
  /\ LibJsonPath \notin DOMAIN last.pre.files
  /\ last.pre.zm \in {"absent", "fails"}

MarkerFiles(files) ==
  [p \in {q \in DOMAIN files : startsWith(q, MarkersFolder \o <<"/">>)} |-> files[p]]

\* The pass treated the map blocks as cx, a pass with a working provider, did
SameMarkerOutcome(cx) ==
  /\ cx.items = last.items
  /\ cx.keep = last.keep
  /\ MarkerFiles(cx.files) = MarkerFiles(vault.files)

GoodMapCount(ds, files) ==
  Cardinality({i \in 1..Len(scanDocs(ds, ScanMode)) :
                 scanDocs(ds, ScanMode)[i] \notin BadMaps(ds, files)})

\* C12: with the library document missing and the companion plugin absent
\* or failing, generatePublishDataNotes completes, handles every map block
\* whose marker document is good and collects orphans exactly as it does
\* with a working plugin; only the library artifact is not written
C12_ProviderNeverFatal ==
  NoProvider =>
    /\ last.completed
    /\ Len(last.items) = GoodMapCount(last.preDocs, last.pre.files)
    /\ SameMarkerOutcome(generatePublishDataNotes(
         NewContext([last.pre EXCEPT !.zm = "saves"], last.preDocs, NoFault),
         last.preDocs, last.now))
    /\ ArtifactNamed(vault.files, MarkersFolder, <<"m", "-">>) \subseteq last.keep
    /\ ~WroteTo(last.log, libraryNotePath)
    /\ libraryNotePath \notin DOMAIN vault.files

\* The plugin's saveLibraryToPath failed and a marker artifact was written
C12_Witness ==
  /\ NoProvider /\ last.pre.zm = "fails"
  /\ \E i \in 1..Len(last.items) : last.items[i].wrote

---------------------------------------------------------------------------
(* Claims about the timeline artifacts (Spec) *)

\* What scanTimelineEntries yields on the vault the latest pass started from
ScannedBefore ==
  scanTimelineEntries(NewContext(last.pre, last.preDocs, NoFault), last.preDocs)

\* The notes whose entries declare timeline name n
Declaring(scanned, n) ==
  {scanned[i].entry.notePath :
     i \in {j \in 1..Len(scanned) :
              \E k \in 1..Len(scanned[j].timelines) : scanned[j].timelines[k] = n}}

EntryNotes(entries) == {entries[i].notePath : i \in 1..Len(entries)}

\* The store holds the artifact of timeline name n with all of n's entries
HoldsTimeline(files, scanned, n) ==
  /\ timelineDataNotePathForTimelineName(n) \in DOMAIN files
  /\ files[timelineDataNotePathForTimelineName(n)].data = "timeline"
  /\ files[timelineDataNotePathForTimelineName(n)].obj.timelineName = n
  /\ files[timelineDataNotePathForTimelineName(n)].obj.months
       = getTimelineMonths(n, MonthOverrides)
  /\ EntryNotes(files[timelineDataNotePathForTimelineName(n)].obj.entries)
       = Declaring(scanned, n)
  /\ Len(files[timelineDataNotePathForTimelineName(n)].obj.entries)
       = Cardinality(Declaring(scanned, n))

\* C13: after generateTimelineDataNotes completes, every timeline name some
\* scanned entry declares has an artifact at its path that carries the name,
\* its month table and exactly the entries declaring it
C13_OneArtifactPerName ==
  (IsTimelineRun /\ last.completed) =>
    \A n \in TimelineNames(last.pre, last.preDocs) :
      HoldsTimeline(vault.files, ScannedBefore, n)

---------------------------------------------------------------------------
(* Claims about id collisions (Spec) *)

\* Items i and j of the latest pass come from different marker paths and
\* share one artifact path
Collide(i, j) ==
  /\ i # j
  /\ normalizeForHash(last.items[i].markersPath) # normalizeForHash(last.items[j].markersPath)
  /\ last.items[i].notePath = last.items[j].notePath

\* The pass said something about the marker path or the artifact path of item i
Indicated(i) ==
  \E k \in 1..Len(last.notices) :
    last.notices[k][2] \in {last.items[i].markersPath, last.items[i].notePath}

\* C14: when two map blocks of one pass declare different marker paths with
\* one artifact path, the pass reports it; it does not count both as
\* generated or unchanged and say nothing
C14_CollisionDetectable ==
  IsMarkerRun =>
    \A i, j \in 1..Len(last.items) : Collide(i, j) => Indicated(i) \/ Indicated(j)

---------------------------------------------------------------------------
(* Claims about the entries of a timeline (SpecEntries) *)

\* The entries the latest pass stored for timeline name n
StoredEntries(n) ==
  IF timelineDataNotePathForTimelineName(n) \in DOMAIN vault.files
  THEN vault.files[timelineDataNotePathForTimelineName(n)].obj.entries
  ELSE <<>>

\* The timeline name the one note of the vault declares, and its stored entries
TheName == splitTimelineNames(last.preDocs[1].timelines)[1]

TheEntries == StoredEntries(TheName)

\* The value of the summary key as a string
Coerced(v) ==
  IF v.form = "number" THEN toDecimal(v.num)
  ELSE IF v.form = "null" THEN <<>>
  ELSE v.text

\* The paragraphs of a body that are not a heading, quote or list item and
\* are not empty once cleaned
Eligible(paras) ==
  {i \in 1..Len(paras) : /\ trim(paras[i]) # <<>>
                         /\ ~isBlockMarkup(trim(paras[i]))
                         /\ cleanParagraph(trim(paras[i])) # <<>>}

FirstEligible(paras) ==
  cleanParagraph(trim(paras[CHOOSE i \in Eligible(paras) : \A j \in Eligible(paras) : i <= j]))

\* sum is the summary extracted from a body with these paragraphs
Extracted(sum, paras) ==
  IF Eligible(paras) = {} THEN ~sum.has
  ELSE /\ sum.has
       /\ Len(sum.text) <= SummaryLimit
       /\ Len(FirstEligible(paras)) <= SummaryLimit => sum.text = FirstEligible(paras)
       /\ Len(FirstEligible(paras)) > SummaryLimit =>
            /\ sum.text[Len(sum.text)] = Ellipsis
            /\ SubSeq(sum.text, 1, Len(sum.text) - 1)
                 = SubSeq(FirstEligible(paras), 1, Len(sum.text) - 1)

SummaryRule(f, e) ==
  IF f.summary.present THEN e.summary.has /\ e.summary.text = Coerced(f.summary)
  ELSE Extracted(e.summary, f.paras)

\* C15: the summary of an entry is the value of the summary key as a string
\* whenever the key is present, whatever the body holds; with the key absent
\* it is the first eligible paragraph, at most SummaryLimit characters long
\* and cut with a closing ellipsis exactly when the cleaned paragraph is longer
C15_SummaryPolicy ==
  (IsTimelineRun /\ last.completed /\ Len(last.preDocs) = 1) =>
    /\ Len(TheEntries) = 1
    /\ SummaryRule(last.preDocs[1], TheEntries[1])

\* An empty summary key next to a body with an eligible paragraph
C15_Witness ==
  /\ IsTimelineRun /\ last.completed /\ Len(last.preDocs) = 1
  /\ last.preDocs[1].summary.present
  /\ Coerced(last.preDocs[1].summary) = <<>>
  /\ Eligible(last.preDocs[1].paras) # {}
  /\ TheEntries[1].summary = Text(<<>>)

\* A first eligible paragraph of more than SummaryLimit characters was cut
C15_WitnessCut ==
  /\ IsTimelineRun /\ last.completed /\ Len(last.preDocs) = 1
  /\ ~last.preDocs[1].summary.present
  /\ Eligible(last.preDocs[1].paras) # {}
  /\ Len(FirstEligible(last.preDocs[1].paras)) > SummaryLimit
  /\ Len(TheEntries[1].summary.text) = SummaryLimit - 2

\* The month table stored with timeline name n
StoredMonths(n) == vault.files[timelineDataNotePathForTimelineName(n)].obj.months

\* The table names month x.m
Named(months, x) == x.m \in 1..Len(months)

DMY(months, x) ==
  toDecimal(x.d) \o <<" ">> \o <<months[x.m]>> \o <<" ">> \o toDecimal(x.y)

SameDay(a, b) == a.y = b.y /\ a.m = b.m /\ a.d = b.d

DateText(months, start, end) ==
  IF ~end.has \/ SameDay(start, end) THEN DMY(months, start)
  ELSE IF start.y = end.y /\ start.m = end.m
       THEN toDecimal(start.d) \o <<EnDash>> \o toDecimal(end.d) \o <<" ">>
            \o <<months[start.m]>> \o <<" ">> \o toDecimal(start.y)
  ELSE DMY(months, start) \o <<" ", EnDash, " ">> \o DMY(months, end)

DateRule(months, e) ==
  (Named(months, e.start) /\ (e.end.has => Named(months, e.end)))
    => e.dateText = DateText(months, e.start, e.end)

\* The three dates written out, under the default months
DateExamples(f, e) ==
  (f.fcDate = Day1 /\ TheName = <<"A">>) =>
    /\ f.fcEnd \in {NoValue, Day1} =>
         e.dateText = <<"1", " ", "March", " ", "1", "1", "6", "5">>
    /\ f.fcEnd = Day3 =>
         e.dateText = <<"1", EnDash, "3", " ", "March", " ", "1", "1", "6", "5">>
    /\ f.fcEnd = April2 =>
         e.dateText = <<"1", " ", "March", " ", "1", "1", "6", "5", " ", EnDash, " ",
                        "2", " ", "April", " ", "1", "1", "6", "5">>

---------------------------------------------------------------------------
(* Claims about the assets manifests (SpecPrepare) *)

\* The latest command ended with the manifest of the maps, of the timelines
MapManifestRun ==
  last.completed /\ last.cmd \in {"generateAssetsManifest", "prepareAll"}

TimelineManifestRun ==
  /\ last.completed
  /\ last.cmd \in {"generateTimelineAssetsManifest", "prepareTimelineOnly",
                   "prepareMapsAndTimeline"}

\* The AssetSet of the latest manifest pass
AssetSet == {last.assets[i] : i \in 1..Len(last.assets)}

UnderConfigDir(q) == startsWith(normalizePath(q), ConfigDir \o <<"/">>)

\* The bullet links of the manifest at notePath
LinksAt(notePath) == vault.files[notePath].obj

\* links holds one bullet per path of listed, sorted by path, and nothing else
ListsExactly(links, listed) ==
  /\ \A q \in listed : Cardinality({i \in 1..Len(links) : links[i] = linkOf(q)}) = 1
  /\ \A i \in 1..Len(links) : \E q \in listed : links[i] = linkOf(q)
  /\ \A i, j \in 1..Len(links) :
       i < j => \E q, r \in listed : /\ links[i] = linkOf(q)
                                     /\ links[j] = linkOf(r)
                                     /\ localeCompare(q, r) <= 0

NoJsonLink(links) == \A i \in 1..Len(links) : ~endsWithJson(links[i])

MapManifestRule ==
  /\ ListsExactly(LinksAt(normalizePath(AssetsNotePath)),
                  {q \in AssetSet : q # <<>> /\ ~endsWithJson(q) /\ ~UnderConfigDir(q)})
  /\ NoJsonLink(LinksAt(normalizePath(AssetsNotePath)))
  /\ \A i \in 1..Len(LinksAt(normalizePath(AssetsNotePath))) :
       ~UnderConfigDir(LinksAt(normalizePath(AssetsNotePath))[i])

TimelineManifestRule ==
  /\ ListsExactly(LinksAt(TimelineAssetsNotePath),
                  {q \in AssetSet : q # <<>> /\ ~endsWithJson(q)})
  /\ NoJsonLink(LinksAt(TimelineAssetsNotePath))

\* C17: a manifest lists every asset of the AssetSet that is no JSON file
\* and, for the maps, lies outside the configuration directory, as one
\* bullet link each, sorted, a path ending in .md without that suffix; it
\* links no JSON file and nothing under the configuration directory
C17_ManifestContent ==
  /\ MapManifestRun => MapManifestRule
  /\ TimelineManifestRun => TimelineManifestRule

---------------------------------------------------------------------------
(* Claims about writeOrUpdateMarkdown (SpecPrepare) *)

\* The latest command was one manifest pass that ran to its end
ManifestPass ==
  /\ last.completed
  /\ last.cmd \in {"generateAssetsManifest", "generateTimelineAssetsManifest"}

ManifestPath ==
  IF last.cmd = "generateAssetsManifest" THEN normalizePath(AssetsNotePath)
  ELSE TimelineAssetsNotePath

\* The text the latest manifest pass handed to writeOrUpdateMarkdown
ManifestText ==
  IF last.cmd = "generateAssetsManifest"
  THEN ManifestNote("maps", mapAssetList(last.assets))
  ELSE ManifestNote("timeline", timelineAssetList(last.assets))

\* What the latest command did to the store, folders aside
StoreOps == SelectSeq(last.log, LAMBDA e : e[1] # "createFolder")

Held(files, path, content) == path \in DOMAIN files /\ SameText(files[path], content)

WriteRule(path, content) ==
  /\ Held(vault.files, path, content)
  /\ StoreOps = IF path \notin DOMAIN last.pre.files THEN << <<"create", path>> >>
                ELSE IF Held(last.pre.files, path, content) THEN <<>>
                ELSE << <<"modify", path>> >>
  /\ \A q \in DOMAIN vault.files \ {path} :
       q \in DOMAIN last.pre.files /\ vault.files[q] = last.pre.files[q]

\* C18: writeOrUpdateMarkdown leaves the store alone when the file holds
\* exactly the text, creates the file when there is none and modifies it
\* otherwise; a manifest pass that repeats a manifest pass writes nothing
C18_IdenticalWriteIsNoOp ==
  /\ ManifestPass => WriteRule(ManifestPath, ManifestText)
  /\ (SecondOfTwo("generateAssetsManifest") \/ SecondOfTwo("generateTimelineAssetsManifest"))
       => last.log = <<>>

\* The maps manifest was regenerated over a manifest with the same text
C18_Witness ==
  /\ SecondOfTwo("generateAssetsManifest")
  /\ Held(last.pre.files, ManifestPath, ManifestText)
  /\ Len(ManifestText.obj) > 2
  /\ last.log = <<>>

---------------------------------------------------------------------------
(* Claims about artifacts still referred to (Spec) *)

\* The marker paths the map blocks scanned by the latest pass declare
DeclaredPaths ==
  {scanDocs(last.preDocs, ScanMode)[i].markersPath :
     i \in 1..Len(scanDocs(last.preDocs, ScanMode))}

\* Before the latest pass the store held the artifact generated from marker path p
HadArtifactOf(p) ==
  /\ markerNotePathForMarkersPath(p) \in DOMAIN last.pre.files
  /\ last.pre.files[markerNotePathForMarkersPath(p)].data = "markers"
  /\ last.pre.files[markerNotePathForMarkersPath(p)].meta.zoommapMarkersPath
       = normalizeForHash(p)

\* C19: generatePublishDataNotes deletes no marker artifact whose marker
\* path a scanned map block still declares, whether or not the marker
\* document can be read at the time of the pass
C19_ReferencedArtifactKept ==
  IsMarkerRun =>
    \A p \in DeclaredPaths :
      HadArtifactOf(p) => markerNotePathForMarkersPath(p) \in DOMAIN vault.files

---------------------------------------------------------------------------
(* Claims about the links of the maps manifest (SpecPrepare) *)

MapLinks ==
  {LinksAt(normalizePath(AssetsNotePath))[i] :
     i \in 1..Len(LinksAt(normalizePath(AssetsNotePath)))}

\* The marker artifacts the maps manifest links to
ListedArtifacts ==
  {l \o DotMd : l \in {k \in MapLinks : startsWith(k, MarkersFolder \o <<"/", "m", "-">>)}}

\* C20: after prepareAll has completed, every marker artifact and the
\* library artifact the maps manifest links to exist in the store; the
\* marker artifacts listed are the keep-set of generatePublishDataNotes
C20_NoDanglingLinks ==
  (last.cmd = "prepareAll" /\ last.completed) =>
    /\ ListedArtifacts \subseteq DOMAIN vault.files
    /\ ListedArtifacts = last.keep
    /\ linkOf(libraryNotePath) \in MapLinks => libraryNotePath \in DOMAIN vault.files

---------------------------------------------------------------------------
(* Claims about the stages of the prepare commands (SpecPrepare) *)

\* The stages a prepare command awaits, in order
StagesOf(cmd) ==
  IF cmd = "prepareAll"
  THEN <<"installPublishRuntime", "generatePublishDataNotes", "generateAssetsManifest">>
  ELSE IF cmd = "prepareTimelineOnly"
  THEN <<"installPublishRuntime", "generateTimelineDataNotes",
         "generateTimelineAssetsManifest">>
  ELSE IF cmd = "prepareMapsAndTimeline"
  THEN <<"installPublishRuntime", "generatePublishDataNotes", "generateAssetsManifest",
         "generateTimelineDataNotes", "generateTimelineAssetsManifest">>
  ELSE <<>>

IsPrepareRun == StagesOf(last.cmd) # <<>>

\* The stages that can be the origin of store operation e
Owners(e) ==
  IF e[1] = "adapter.write" THEN {"installPublishRuntime"}
  ELSE IF e[2] = normalizePath(AssetsNotePath) THEN {"generateAssetsManifest"}
  ELSE IF e[2] = TimelineAssetsNotePath THEN {"generateTimelineAssetsManifest"}
  ELSE IF e[2] = PublishRoot THEN {"generatePublishDataNotes", "generateAssetsManifest"}
  ELSE IF e[2] = TimelineRoot
       THEN {"generateTimelineDataNotes", "generateTimelineAssetsManifest"}
  ELSE IF startsWith(e[2], TimelinesFolder) THEN {"generateTimelineDataNotes"}
  ELSE {"generatePublishDataNotes"}

\* The number of the stage during which store operation i happened
StageAt(i) ==
  Cardinality({k \in 1..Len(last.stages) : last.stages[k].logEnd < i}) + 1

\* C21: a prepare command runs its stages in sequence: the stages that
\* returned are the first ones of the command in order, every store
\* operation belongs to the stage running at the time, and a stage that
\* fails is the last one to have started
C21_StagesInSequence ==
  IsPrepareRun =>
    /\ Len(last.stages) <= Len(StagesOf(last.cmd))
    /\ \A k \in 1..Len(last.stages) : last.stages[k].name = StagesOf(last.cmd)[k]
    /\ \A k \in 1..(Len(last.stages) - 1) : last.stages[k].logEnd <= last.stages[k + 1].logEnd
    /\ last.completed <=> Len(last.stages) = Len(StagesOf(last.cmd))
    /\ \A i \in 1..Len(last.log) :
         /\ StageAt(i) <= Len(StagesOf(last.cmd))
         /\ StagesOf(last.cmd)[StageAt(i)] \in Owners(last.log[i])

\* All five stages of prepareMapsAndTimeline wrote to the store
C21_Witness ==
  /\ last.cmd = "prepareMapsAndTimeline" /\ last.completed
  /\ \A k \in 1..5 : \E i \in 1..Len(last.log) : StageAt(i) = k

---------------------------------------------------------------------------
(* Claims about linked notes (SpecLinks) *)

\* The latest command wrote the maps manifest with deep link inclusion on / off
DeepRun    == last.cmd = "generateAssetsManifest" /\ last.completed /\ last.deep
ShallowRun == last.cmd = "generateAssetsManifest" /\ last.completed /\ ~last.deep

\* The vault as the latest command found it
Before == NewContext(last.pre, last.preDocs, NoFault)

Elems(seq) == {seq[i] : i \in 1..Len(seq)}

\* The markers of the marker documents of the scanned map blocks
ScannedMarkers ==
  UNION {Elems(last.pre.files[p].val.markers) : p \in GoodSources(last.preDocs, last.pre.files)}

\* The library document, when it is there and parses
LibraryVal ==
  IF LibJsonPath \in DOMAIN last.pre.files /\ last.pre.files[LibJsonPath].ok
  THEN last.pre.files[LibJsonPath].val
  ELSE [icons |-> <<>>, baseCollections |-> <<>>]

\* The frames of the presets with key k
FramesOf(k) ==
  UNION {Elems(sp.frames) :
           sp \in {x \in UNION {Elems(c.swapPins) : c \in Elems(LibraryVal.baseCollections)} :
                     NonBlank(x.id) /\ trim(x.id.text) = k}}

PresetKeys ==
  {trim(sp.id.text) :
     sp \in {x \in UNION {Elems(c.swapPins) : c \in Elems(LibraryVal.baseCollections)} :
               NonBlank(x.id)}}

\* The frame links of preset k and the default links of its frame icons
PresetLinks(k) ==
  {fr.link.text : fr \in {f \in FramesOf(k) : NonBlank(f.link)}}
  \cup {ic.defaultLink.text :
          ic \in {x \in Elems(LibraryVal.icons) :
                    /\ NonBlank(x.key) /\ NonBlank(x.defaultLink)
                    /\ \E f \in FramesOf(k) : NonBlank(f.iconKey)
                                             /\ trim(f.iconKey.text) = trim(x.key.text)}}

\* The links the markers hold themselves
OwnLinks ==
  {m.link.text : m \in {x \in ScannedMarkers : NonBlank(x.link)}}
  \cup UNION {{v.text : v \in {w \in Elems(m.swapLinks) : NonBlank(w)}} :
                m \in {x \in ScannedMarkers : x.type = "swap"}}

\* The presets the swap markers name
UsedKeys ==
  {trim(m.swapKey.text) :
     m \in {x \in ScannedMarkers : x.type = "swap" /\ NonBlank(x.swapKey)}} \cap PresetKeys

\* The markdown notes a set of links resolves to
NotesOf(links) ==
  {normalizePath(resolveLinkedNotePath(Before, l, Note1)) :
     l \in {x \in links : resolveLinkedNotePath(Before, x, Note1) # NoPath}}

\* The AssetSet without deep link inclusion
ShallowAssets == Elems(collectMapAssets(Before, scanDocs(last.preDocs, ScanMode), FALSE))

\* C22: with deep link inclusion on, every note that a frame link or the
\* default link of a frame icon of a preset named by a swap marker resolves
\* to is in the AssetSet, and the AssetSet holds nothing beyond the links of
\* the markers and of those presets: nothing from inside the linked notes
\* and nothing from a preset no marker names
C22_OneLevelOfPresets ==
  DeepRun =>
    /\ \A k \in UsedKeys : NotesOf(PresetLinks(k)) \subseteq AssetSet
    /\ AssetSet \subseteq ShallowAssets \cup NotesOf(OwnLinks)
                          \cup UNION {NotesOf(PresetLinks(k)) : k \in UsedKeys}

\* A swap marker named preset k1: notes v and z are assets, notes t, u, w are not
C22_Witness ==
  /\ DeepRun
  /\ UsedKeys = {Key1}
  /\ {Md("v"), Md("z"), Md("x"), Md("y")} \subseteq AssetSet
  /\ AssetSet \cap {Md("t"), Md("u"), Md("w"), Md("q"), Md("r"), StickerPng} = {}

\* A marker, an icon, a swap pin without their link fields
Unlinked(m) == [m EXCEPT !.link = NotStr, !.swapLinks = <<>>, !.swapKey = NotStr]

UnlinkedIcon(ic) == [ic EXCEPT !.defaultLink = NotStr]

UnlinkedCollection(c) ==
  [c EXCEPT !.swapPins = [i \in 1..Len(c.swapPins) |-> [c.swapPins[i] EXCEPT !.frames = <<>>]]]

\* A document of the store without the link fields of its markers, icons
\* and presets
UnlinkedFile(path, f) ==
  IF f.kind # "json" THEN f
  ELSE IF path = LibJsonPath
  THEN [f EXCEPT !.val =
          [icons |-> [i \in 1..Len(f.val.icons) |-> UnlinkedIcon(f.val.icons[i])],
           baseCollections |-> [i \in 1..Len(f.val.baseCollections) |->
                                  UnlinkedCollection(f.val.baseCollections[i])]]]
  ELSE [f EXCEPT !.val.markers = [i \in 1..Len(f.val.markers) |-> Unlinked(f.val.markers[i])]]

UnlinkedStore(v) ==
  [v EXCEPT !.files = [p \in DOMAIN v.files |-> UnlinkedFile(p, v.files[p])]]

\* The notes a marker link, a swap link or a preset of the store leads to
LinkedNotes == NotesOf(OwnLinks) \cup UNION {NotesOf(PresetLinks(k)) : k \in PresetKeys}

\* C25: with includePinLinkedNotesInAssets off the AssetSet is the one of
\* the same store without any marker link, swap link or preset frame, and
\* holds no note on account of those fields
C25_DeepInclusionIsOptIn ==
  ShallowRun =>
    /\ last.assets = collectMapAssets(NewContext(UnlinkedStore(last.pre), last.preDocs, NoFault),
                                      scanDocs(last.preDocs, ScanMode), FALSE)
    /\ AssetSet \cap LinkedNotes = {}

\* The setting was off on a store whose markers and presets link to notes
C25_Witness ==
  /\ ShallowRun
  /\ UsedKeys = {Key1}
  /\ {Md("x"), Md("y"), Md("v"), Md("z")} \subseteq LinkedNotes
  /\ UnlinkedStore(last.pre) # last.pre
  /\ MapImage \in AssetSet

---------------------------------------------------------------------------
(* Claims about an entry declared under several timelines (SpecEntries) *)

\* The timeline names the one note of the vault declares
TheNames == splitTimelineNames(last.preDocs[1].timelines)

\* The note declaring timeline n alone
Only(f, n) == [f EXCEPT !.timelines = StringValue(n)]

\* The entries stored for timeline n by a pass over an empty vault whose one
\* note declares n alone
AloneEntries(f, n) ==
  VaultOf(generateTimelineDataNotes(NewContext(EmptyVault, <<Only(f, n)>>, NoFault),
                                    <<Only(f, n)>>, last.now))
    .files[timelineDataNotePathForTimelineName(n)].obj.entries

\* C24: an entry declared under two timeline names is stored once in each
\* artifact, with the date text of that timeline's own month table, exactly
\* as if the note declared that timeline alone
C24_GroupsAreIndependent ==
  (IsTimelineRun /\ last.completed /\ Len(last.preDocs) = 1) =>
    \A k \in 1..Len(TheNames) :
      /\ Len(StoredEntries(TheNames[k])) = 1
      /\ StoredMonths(TheNames[k]) = getTimelineMonths(TheNames[k], MonthOverrides)
      /\ StoredEntries(TheNames[k])[1].dateText
           = formatRangeWithMonths(getTimelineMonths(TheNames[k], MonthOverrides),
                                   StoredEntries(TheNames[k])[1].start,
                                   StoredEntries(TheNames[k])[1].end)
      /\ StoredEntries(TheNames[k]) = AloneEntries(last.preDocs[1], TheNames[k])

\* A note under "b" and "A", in this order, stored with "Hammer" in one
\* artifact and "March" in the other
C24_Witness ==
  /\ IsTimelineRun /\ last.completed /\ Len(last.preDocs) = 1
  /\ TheNames = << <<"b">>, <<"A">> >>
  /\ last.preDocs[1].fcDate = Day1
  /\ last.preDocs[1].fcEnd = NoValue
  /\ StoredEntries(<<"A">>)[1].dateText = <<"1", " ", "March", " ", "1", "1", "6", "5">>
  /\ StoredEntries(<<"b">>)[1].dateText = <<"1", " ", "Hammer", " ", "1", "1", "6", "5">>

---------------------------------------------------------------------------
(* Claims about the library artifact (SpecLinks) *)

\* A command of the plugin was the latest event
CommandRan == last.cmd \notin {"none", "edit"}

\* The library document is not in the vault and no plugin can save it, or it
\* does not parse
BadLibrary(v) ==
  IF LibJsonPath \in DOMAIN v.files
  THEN ~(v.files[LibJsonPath].kind = "json" /\ v.files[LibJsonPath].ok)
  ELSE v.zm # "saves"

Touched(path) == \E i \in 1..Len(last.log) : last.log[i][2] = path

SameFileAt(path, before, after) ==
  IF path \in DOMAIN before THEN path \in DOMAIN after /\ after[path] = before[path]
  ELSE path \notin DOMAIN after

\* C26: with the library document missing or not valid JSON no command
\* writes the library artifact, and an artifact that exists keeps its
\* content; no command ever trashes the library artifact
C26_LibraryArtifactLeftAlone ==
  CommandRan =>
    /\ <<"trash", libraryNotePath>> \notin Elems(last.log)
    /\ libraryNotePath \in DOMAIN last.pre.files => libraryNotePath \in DOMAIN vault.files
    /\ BadLibrary(last.pre) =>
         /\ ~Touched(libraryNotePath)
         /\ SameFileAt(libraryNotePath, last.pre.files, vault.files)

\* The marker pass completed over a library document that does not parse,
\* next to the library artifact of an earlier export
C26_Witness ==
  /\ last.cmd = "generatePublishDataNotes" /\ last.completed
  /\ LibJsonPath \in DOMAIN last.pre.files
  /\ ~last.pre.files[LibJsonPath].ok
  /\ <<"library.json is invalid JSON", LibJsonPath>> \in Elems(last.notices)
  /\ vault.files[libraryNotePath] = OldLibraryNote
  /\ last.updated > 0

---------------------------------------------------------------------------
(* Claims about the counts of the summary notice (Spec) *)

\* C27: at the end of a generatePublishDataNotes pass the artifacts counted
\* as updated and those counted as unchanged add up to the size of the
\* keep-set reported in the same summary
C27_CountsAddUp ==
  (last.cmd = "generatePublishDataNotes" /\ last.completed) =>
    last.updated + last.skipped = Cardinality(last.keep)

---------------------------------------------------------------------------
(* Claims about the order of the entries (SpecEntries) *)

\* (year, month, day) of a comes before (year, month, day) of b, or is equal
LexLeq(a, b) ==
  \/ a.y < b.y
  \/ a.y = b.y /\ a.m < b.m
  \/ a.y = b.y /\ a.m = b.m /\ a.d <= b.d

\* The start dates parseFcDate returned for the notes of the vault
ParsedStarts ==
  {parseFcDate(last.preDocs[i].fcDate) : i \in 1..Len(last.preDocs)} \ {NoYmd}

AscendingKeys(es) ==
  \A i, j \in 1..Len(es) : i < j => ymdSortKey(es[i].start) <= ymdSortKey(es[j].start)

\* C28: the entries of every timeline artifact are in ascending order of the
\* composite key of their start date, and for every two start dates that
\* parseFcDate returned the order of the composite keys is the
\* lexicographic order on (year, month, day)
C28_ChronologicalOrder ==
  (IsTimelineRun /\ last.completed) =>
    /\ \A p \in last.tkeep : AscendingKeys(vault.files[p].obj.entries)
    /\ \A a \in ParsedStarts, b \in ParsedStarts :
         ymdSortKey(a) <= ymdSortKey(b) <=> LexLeq(a, b)

---------------------------------------------------------------------------
(* Claims about the hash arithmetic (SpecHash) *)

\* A 32-bit word written as its four bytes, least significant first
OffsetBytes == <<197, 157, 28, 129>>     \* 2166136261 = 0x811c9dc5

\* The bits of n that are set, and a XOR b from the bits set in exactly one
Bits(n) == {k \in 0..15 : (n \div (2 ^ k)) % 2 = 1}

RECURSIVE SumOfPowers(_)
SumOfPowers(ks) ==
  IF ks = {} THEN 0
  ELSE LET k == CHOOSE x \in ks : TRUE IN 2 ^ k + SumOfPowers(ks \ {k})

XorOf(a, b) == SumOfPowers((Bits(a) \ Bits(b)) \cup (Bits(b) \ Bits(a)))

\* (w * 16777619) mod 2^32 by long multiplication: 16777619 has the bytes
\* 147, 1, 0, 1 (least significant first)
TimesPrime(w) ==
  LET c1 == w[1] * 147
      c2 == w[2] * 147 + w[1] + c1 \div 256
      c3 == w[3] * 147 + w[2] + c2 \div 256
      c4 == w[4] * 147 + w[3] + w[1] + c3 \div 256
  IN  <<c1 % 256, c2 % 256, c3 % 256, c4 % 256>>

\* (w XOR c) for a code unit c
XorUnit(w, c) ==
  LET low == XorOf(w[1] + 256 * w[2], c) IN <<low % 256, low \div 256, w[3], w[4]>>

\* The fold h := ((h XOR c) * 16777619) mod 2^32 over the code units of str
RECURSIVE FoldFrom(_, _)
FoldFrom(w, str) ==
  IF str = <<>> THEN w
  ELSE FoldFrom(TimesPrime(XorUnit(w, charCode[Head(str)])), Tail(str))

Halves(w) == <<w[4] * 256 + w[3], w[2] * 256 + w[1]>>

\* The word a string of base-36 digits stands for (halves may exceed 16 bits
\* only if the string is no 32-bit number)
RECURSIVE FromBase36(_)
FromBase36(ds) ==
  IF ds = <<>> THEN <<0, 0>>
  ELSE LET h  == FromBase36(SubSeq(ds, 1, Len(ds) - 1))
           lo == h[2] * 36 + (CHOOSE n \in 0..35 : Digits36[n + 1] = ds[Len(ds)])
       IN  <<h[1] * 36 + lo \div 65536, lo % 65536>>

IsBase36(ds) ==
  /\ ds # <<>>
  /\ \A i \in 1..Len(ds) : \E n \in 0..35 : Digits36[n + 1] = ds[i]
  /\ Len(ds) > 1 => ds[1] # "0"

IsWord(h) == h[1] \in 0..65535 /\ h[2] \in 0..65535

HashRule(str, id) ==
  /\ fnv1a32(str) = Halves(FoldFrom(OffsetBytes, str))
  /\ IsWord(fnv1a32(str))
  /\ IsBase36(id)
  /\ FromBase36(id) = fnv1a32(str)

\* The published values of FNV-1a for "", "a" and "foobar"
HashExamples ==
  /\ fnv1a32(<<>>) = <<33052, 40389>>
  /\ fnv1a32(<<"a">>) = <<58380, 10540>>
  /\ fnv1a32(<<"f", "o", "o", "b", "a", "r">>) = <<49052, 63848>>

\* C29: fnv1a32 is the fold from 2166136261 with h := ((h XOR c) * 16777619)
\* mod 2^32 over the code units in order, its result is a word in
\* 0 .. 2^32 - 1, and hashPathToId and hashKeyToId write it in base 36
C29_HashArithmetic ==
  hIdA # NoVal =>
    /\ HashRule(normalizeForHash(hA), hIdA)
    /\ hA = hB => HashRule(toLowerCase(trim(hA)), hashKeyToId(hA))
    /\ hA = <<>> => HashExamples

\* The id of "./aa" is the hash 0x4c250437 of "aa" in base 36
C29_Witness ==
  /\ hA = <<".", "/", "a", "a">>
  /\ hIdA = <<"l", "4", "l", "4", "x", "j">>
  /\ fnv1a32(<<"a", "a">>) = <<19493, 1079>>

---------------------------------------------------------------------------
(* Claims about normalizeForHash applied twice (SpecHash) *)

\* C30: normalizeForHash(normalizeForHash(x)) = normalizeForHash(x), so the
\* normalized key hashes to the id of the raw key
C30_NormalizeIdempotent ==
  hIdA # NoVal =>
    /\ normalizeForHash(normalizeForHash(hA)) = normalizeForHash(hA)
    /\ hashPathToId(normalizeForHash(hA)) = hIdA

---------------------------------------------------------------------------
(* Claims about overlapping commands (SpecOverlap) *)

\* The store after command c ran alone on store v
AfterAlone(c, v) ==
  IF c = "generateAssetsManifest"
  THEN VaultOf(generateAssetsManifest(NewContext(v, docs, NoFault), docs,
                                      IncludePinLinkedNotesInAssets))
  ELSE VaultOf(generateTimelineAssetsManifest(NewContext(v, docs, NoFault), docs))

\* The stores the two commands leave when one runs after the other
SequentialStores ==
  { AfterAlone(passes.of[2].cmd, AfterAlone(passes.of[1].cmd, passes.start)),
    AfterAlone(passes.of[1].cmd, AfterAlone(passes.of[2].cmd, passes.start)) }

InFlight == passes # NoPasses

AllEnded == \A p \in PassIds : passes.of[p].pc \in {"done", "failed"}

NoCreateOverFile == \A p \in PassIds : ~passes.of[p].existed

NoPassFails == \A p \in PassIds : passes.of[p].pc # "failed"

Serializable == AllEnded => vault \in SequentialStores

\* C23: when two commands overlap, vault.create is never called on a path
\* where a file exists at the time of the call, no command fails, and the
\* store is left as one of the two sequential executions leaves it
C23_OverlapIsHarmless ==
  InFlight => (NoCreateOverFile /\ NoPassFails /\ Serializable)

=============================================================================
